---- MODULE Spec2Model ----
(***************************************************************************)
(* The evaluation and metrics logs of the summarizer: the two CSV stores   *)
(* (prompt_evaluations.csv, summaries_metrics.csv), the routines that      *)
(* append to them and the routines that read them back and aggregate.      *)
(*                                                                         *)
(* Text is a sequence of one-character strings; an identifier that the     *)
(* program only copies (a column name, a strategy id) is a one-token text. *)
(* A Python number is [ty, val]: None, an int or a float whose value is    *)
(* val/10^4.  A float that takes part in arithmetic is an IEEE double,     *)
(* held exactly as a fixed-point vector of limbs.                          *)
(***************************************************************************)
EXTENDS Integers, Sequences, FiniteSets, TLC

(***************************************************************************)
(* The state: the two stores and what the last call of each summary        *)
(* routine returned.  History: the arguments of the log_prompt_evaluation  *)
(* calls so far (passed), how many of them came after the last             *)
(* get_evaluation_summary call (pending), how many came between the last   *)
(* two such calls (between), and what the call before the last returned    *)
(* (prevEval).                                                             *)
(*                                                                         *)
(* A call of one of the metric functions: its arguments (args) and what it *)
(* returned (ret).                                                         *)
(*                                                                         *)
(* A run of the generation loop of the app: its inputs (selected_versions, *)
(* reference_summary), where it is (pc, pos), the locals of the iteration  *)
(* (locals), results_cache, the strategies an error was written for           *)
(* (reported) and, as history, what happened to each strategy (hist).      *)
(*                                                                         *)
(* Sessions that run log_prompt_evaluation at the same time (writers): the *)
(* position and the arguments of each and, as history, the log they        *)
(* started from and the order in which they appended.                      *)
(***************************************************************************)
VARIABLES evalFile, metricsFile, lastEval, lastMetrics,
          passed, pending, between, prevEval,
          args, ret,
          selected_versions, reference_summary, pc, pos, locals, results_cache,
          reported, hist,
          writers

calcVars == <<args, ret>>

batchVars == <<selected_versions, reference_summary, pc, pos, locals,
               results_cache, reported, hist>>

concVars == <<writers>>

vars == <<evalFile, metricsFile, lastEval, lastMetrics,
          passed, pending, between, prevEval, calcVars, batchVars, concVars>>

(***************************************************************************)
(* Bounds of the model.                                                    *)
(***************************************************************************)
MaxRows == 3
MaxAggRows == 4
MaxDen == 4
MaxTextLen == 3
MaxPieces == 4
MaxBatch == 2
MaxUsageRows == 2
MaxLimit == 2

(***************************************************************************)
(* Text and Python's str() / float().                                      *)
(***************************************************************************)
Digits10 == <<"0", "1", "2", "3", "4", "5", "6", "7", "8", "9">>

DigitChar(d) == Digits10[d + 1]

IsDigit(c) == \E d \in 0..9 : Digits10[d + 1] = c

DigitVal(c) == CHOOSE d \in 0..9 : Digits10[d + 1] = c

Txt(s) == <<s>>

Range(f) == {f[i] : i \in DOMAIN f}

\* The value None where a text is expected (csv.DictReader's restval).
NoneCell == <<"<None>">>

\* Decimal places a value carries: val is the value times 10^DecPlaces.
DecPlaces == 4
DecScale == 10 ^ DecPlaces

PyNone == [ty |-> "none", val |-> 0]
PyInt(n) == [ty |-> "int", val |-> n * DecScale]
PyFloat(m) == [ty |-> "float", val |-> m]

RECURSIVE PyStrInt(_)
PyStrInt(n) ==
    IF n < 10 THEN <<DigitChar(n)>>
    ELSE PyStrInt(n \div 10) \o <<DigitChar(n % 10)>>

RECURSIVE FixedDigits(_, _)
FixedDigits(f, places) ==
    IF places = 0 THEN <<>>
    ELSE FixedDigits(f \div 10, places - 1) \o <<DigitChar(f % 10)>>

\* The digits after the point of repr(float): f as DecPlaces digits, the
\* trailing zeros dropped but one digit kept.
RECURSIVE FracDigits(_, _)
FracDigits(f, places) ==
    IF places > 1 /\ f % 10 = 0 THEN FracDigits(f \div 10, places - 1)
    ELSE FixedDigits(f, places)

PyStrFloat(m) ==
    PyStrInt(m \div DecScale) \o <<".">> \o FracDigits(m % DecScale, DecPlaces)

\* What csv.writer puts in a cell for a number: str(value), and "" for None.
CsvNum(v) ==
    IF v.ty = "none" THEN <<>>
    ELSE IF v.ty = "int" THEN PyStrInt(v.val \div DecScale)
    ELSE PyStrFloat(v.val)

RECURSIVE DigitsValue(_)
DigitsValue(s) ==
    IF s = <<>> THEN 0
    ELSE DigitsValue(SubSeq(s, 1, Len(s) - 1)) * 10 + DigitVal(s[Len(s)])

\* The text is a decimal literal float() accepts: digits with at most one
\* point and at least one digit.
IsDecimal(s) ==
    /\ s # NoneCell
    /\ \A i \in 1..Len(s) : IsDigit(s[i]) \/ s[i] = "."
    /\ Cardinality({i \in 1..Len(s) : s[i] = "."}) <= 1
    /\ \E i \in 1..Len(s) : IsDigit(s[i])

\* The value of a decimal literal times 10^DecPlaces (the literals of the
\* model carry at most DecPlaces decimals).
DecimalVal(s) ==
    LET dots == {i \in 1..Len(s) : s[i] = "."}
        p    == IF dots = {} THEN Len(s) + 1 ELSE CHOOSE i \in dots : TRUE
        ip   == SubSeq(s, 1, p - 1)
        fp   == SubSeq(s, p + 1, Len(s))
        pad  == fp \o [i \in 1..(DecPlaces - Len(fp)) |-> "0"]
    IN  DigitsValue(ip) * DecScale + DigitsValue(SubSeq(pad, 1, DecPlaces))

(***************************************************************************)
(* IEEE double arithmetic.  A double x >= 0 is the vector of NumLimbs      *)
(* limbs, least significant first, of the integer x * 2^FracBits.           *)
(***************************************************************************)
LimbBits == 16
LimbBase == 2 ^ LimbBits
NumLimbs == 7
FracLimbs == 5
FracBits == FracLimbs * LimbBits
MantissaBits == 53

RECURSIVE BitLen(_)
BitLen(x) == IF x = 0 THEN 0 ELSE 1 + BitLen(x \div 2)

FxZero == <<0, 0, 0, 0, 0, 0, 0>>

FxFromInt(n) == <<0, 0, 0, 0, 0, n % LimbBase, n \div LimbBase>>

RECURSIVE AddLimbs(_, _, _, _)
AddLimbs(a, b, i, carry) ==
    IF i > NumLimbs THEN <<>>
    ELSE LET s == a[i] + b[i] + carry
         IN  <<s % LimbBase>> \o AddLimbs(a, b, i + 1, s \div LimbBase)

FxAdd(a, b) == AddLimbs(a, b, 1, 0)

RECURSIVE MulLimbs(_, _, _, _)
MulLimbs(a, k, i, carry) ==
    IF i > NumLimbs THEN <<>>
    ELSE LET s == a[i] * k + carry
         IN  <<s % LimbBase>> \o MulLimbs(a, k, i + 1, s \div LimbBase)

FxMulSmall(a, k) == MulLimbs(a, k, 1, 0)

\* Long division by a small integer from the top limb down: the quotient's
\* limbs, then whether a remainder is left.
RECURSIVE DivLimbs(_, _, _, _)
DivLimbs(a, k, i, rem) ==
    IF i = 0 THEN [q |-> <<>>, sticky |-> rem # 0]
    ELSE LET cur  == rem * LimbBase + a[i]
             rest == DivLimbs(a, k, i - 1, cur % k)
         IN  [q |-> rest.q \o <<cur \div k>>, sticky |-> rest.sticky]

FxDivSmall(a, k) == DivLimbs(a, k, NumLimbs, 0)

FxBitLen(a) ==
    LET nz == {i \in 1..NumLimbs : a[i] # 0}
        top == CHOOSE i \in nz : \A j \in nz : j <= i
    IN  IF nz = {} THEN 0 ELSE LimbBits * (top - 1) + BitLen(a[top])

FxBit(a, k) == (a[(k \div LimbBits) + 1] \div (2 ^ (k % LimbBits))) % 2

\* All the bits of a below bit k are zero.
FxLowZero(a, k) ==
    /\ \A i \in 1..(k \div LimbBits) : a[i] = 0
    /\ a[(k \div LimbBits) + 1] % (2 ^ (k % LimbBits)) = 0

RECURSIVE ClearLimbs(_, _, _)
ClearLimbs(a, k, i) ==
    IF i > NumLimbs THEN <<>>
    ELSE <<IF i <= k \div LimbBits THEN 0
           ELSE IF i = (k \div LimbBits) + 1
                THEN a[i] - (a[i] % (2 ^ (k % LimbBits)))
           ELSE a[i]>> \o ClearLimbs(a, k, i + 1)

FxClearLow(a, k) == ClearLimbs(a, k, 1)

RECURSIVE Pow2Limbs(_, _)
Pow2Limbs(k, i) ==
    IF i > NumLimbs THEN <<>>
    ELSE <<IF i = (k \div LimbBits) + 1 THEN 2 ^ (k % LimbBits) ELSE 0>>
         \o Pow2Limbs(k, i + 1)

FxPow2(k) == Pow2Limbs(k, 1)

\* Round to nearest, ties to even, keeping MantissaBits significant bits.
RoundNearestEven(a, sticky) ==
    LET len == FxBitLen(a)
        d   == len - MantissaBits
        up  == /\ FxBit(a, d - 1) = 1
               /\ \/ ~FxLowZero(a, d - 1)
                  \/ sticky
                  \/ FxBit(a, d) = 1
    IN  IF len <= MantissaBits THEN a
        ELSE FxAdd(FxClearLow(a, d), IF up THEN FxPow2(d) ELSE FxZero)

\* float(text) of a decimal literal: the double nearest to m/10^DecPlaces.
DoubleOf(m) ==
    LET qr == FxDivSmall(FxFromInt(m), DecScale)
    IN  RoundNearestEven(qr.q, qr.sticky)

FloatAdd(a, b) == RoundNearestEven(FxAdd(a, b), FALSE)

FloatDivInt(a, n) ==
    LET qr == FxDivSmall(a, n)
    IN  RoundNearestEven(qr.q, qr.sticky)

\* round(x, nd) for nd in 0..DecPlaces, times 10^DecPlaces: the decimal with
\* nd places nearest to the exact value of the double x, ties to even.
PyRound(x, nd) ==
    LET m    == FxMulSmall(x, 10 ^ nd)
        int  == m[FracLimbs + 1] + m[FracLimbs + 2] * LimbBase
        half == FxBit(m, FracBits - 1) = 1
        rest == ~FxLowZero(m, FracBits - 1)
        up   == half /\ (rest \/ int % 2 = 1)
    IN  (int + (IF up THEN 1 ELSE 0)) * (10 ^ (DecPlaces - nd))

\* The same for a double with a sign: [neg, mag].
Signed(neg, mag) == [neg |-> neg /\ mag # FxZero, mag |-> mag]

RECURSIVE LessLimbs(_, _, _)
LessLimbs(a, b, i) ==
    IF i = 0 THEN FALSE
    ELSE IF a[i] # b[i] THEN a[i] < b[i]
    ELSE LessLimbs(a, b, i - 1)

FxLess(a, b) == LessLimbs(a, b, NumLimbs)

\* a - b for a >= b.
RECURSIVE SubLimbs(_, _, _, _)
SubLimbs(a, b, i, borrow) ==
    IF i > NumLimbs THEN <<>>
    ELSE LET d == a[i] - b[i] - borrow
         IN  <<d % LimbBase>>
             \o SubLimbs(a, b, i + 1, IF d < 0 THEN 1 ELSE 0)

FxSub(a, b) == SubLimbs(a, b, 1, 0)

\* x + y on signed doubles.
SignedAdd(x, y) ==
    IF x.neg = y.neg THEN Signed(x.neg, FloatAdd(x.mag, y.mag))
    ELSE IF FxLess(x.mag, y.mag)
    THEN Signed(y.neg, RoundNearestEven(FxSub(y.mag, x.mag), FALSE))
    ELSE Signed(x.neg, RoundNearestEven(FxSub(x.mag, y.mag), FALSE))

SignedSub(x, y) == SignedAdd(x, Signed(~y.neg, y.mag))

\* x * k for an integer k > 0.
FloatMulInt(a, k) == RoundNearestEven(FxMulSmall(a, k), FALSE)

\* a / b on the integers a >= 0, b > 0: the double nearest to the quotient.
IntTrueDiv(a, b) == FloatDivInt(FxFromInt(a), b)

(***************************************************************************)
(* str.split(), str.split('.') and str.lower()                             *)
(***************************************************************************)
IsSpace(c) == c = " "

\* text.split(): the maximal runs of characters that are not whitespace.
\* word is the run being read.
RECURSIVE SplitWords(_, _, _)
SplitWords(text, i, word) ==
    IF i > Len(text) THEN (IF word = <<>> THEN <<>> ELSE <<word>>)
    ELSE IF IsSpace(text[i])
    THEN (IF word = <<>> THEN <<>> ELSE <<word>>) \o SplitWords(text, i + 1, <<>>)
    ELSE SplitWords(text, i + 1, Append(word, text[i]))

Split(text) == SplitWords(text, 1, <<>>)

\* text.split(sep): the segments between the separators, the empty ones and
\* the last one included.
RECURSIVE SplitSegments(_, _, _, _)
SplitSegments(text, sep, i, segment) ==
    IF i > Len(text) THEN <<segment>>
    ELSE IF text[i] = sep
    THEN <<segment>> \o SplitSegments(text, sep, i + 1, <<>>)
    ELSE SplitSegments(text, sep, i + 1, Append(segment, text[i]))

SplitOn(text, sep) == SplitSegments(text, sep, 1, <<>>)

LowerChar(c) == IF c = "A" THEN "a" ELSE IF c = "B" THEN "b" ELSE c

Lower(text) == [i \in DOMAIN text |-> LowerChar(text[i])]

RECURSIVE SumLen(_, _)
SumLen(words, n) == IF n = 0 THEN 0 ELSE SumLen(words, n - 1) + Len(words[n])

(***************************************************************************)
(* calculate_basic_metrics                                                 *)
(***************************************************************************)
\* round(cand_length / ref_length * 100, 2) if ref_length > 0 else 0
CompressionRatio(ref_length, cand_length) ==
    IF ref_length > 0
    THEN PyFloat(PyRound(FloatMulInt(IntTrueDiv(cand_length, ref_length), 100), 2))
    ELSE PyInt(0)

\* The slip of counting the candidate's words where the common words are
\* meant.
WordOverlapOfCandidate(ref_words, cand_words) ==
    IF Cardinality(ref_words) = 0 THEN PyInt(0)
    ELSE PyFloat(PyRound(FloatMulInt(
             IntTrueDiv(Cardinality(cand_words), Cardinality(ref_words)),
             100), 2))

\* 0 if the reference has no words, else
\* round(len(ref_words & cand_words) / len(ref_words) * 100, 2)
WordOverlap(ref_words, cand_words) ==
    IF Cardinality(ref_words) = 0 THEN PyInt(0)
    ELSE PyFloat(PyRound(FloatMulInt(
             IntTrueDiv(Cardinality(ref_words \cap cand_words),
                        Cardinality(ref_words)),
             100), 2))

\* set(text.lower().split())
WordSet(text) == Range(Split(Lower(text)))

calculate_basic_metrics(reference, candidate) ==
    [reference_length |-> Len(reference),
     candidate_length |-> Len(candidate),
     compression_ratio |-> CompressionRatio(Len(reference), Len(candidate)),
     word_overlap_percentage |-> WordOverlap(WordSet(reference), WordSet(candidate))]

(***************************************************************************)
(* calculate_readability_score                                             *)
(***************************************************************************)
\* The slip of not counting the empty segments of text.split('.').
SentencesNonEmpty(text) == SelectSeq(SplitOn(text, "."), LAMBDA seg : seg # <<>>)

\* sentences = text.split('.')
Sentences(text) == SplitOn(text, ".")

\* sum(len(w) for w in words) / len(words) if words else 0
AvgWordLength(words) ==
    IF words # <<>> THEN IntTrueDiv(SumLen(words, Len(words)), Len(words))
    ELSE FxZero

\* len(words) / len(sentences) if sentences else 0
AvgSentenceLength(words, sentences) ==
    IF sentences # <<>> THEN IntTrueDiv(Len(words), Len(sentences)) ELSE FxZero

\* (5 - avg_word_length + 10 - avg_sentence_length) * 5, left to right.
RawReadability(avg_word_length, avg_sentence_length) ==
    LET a == SignedSub(Signed(FALSE, FxFromInt(5)), Signed(FALSE, avg_word_length))
        b == SignedAdd(a, Signed(FALSE, FxFromInt(10)))
        c == SignedSub(b, Signed(FALSE, avg_sentence_length))
    IN  Signed(c.neg, FloatMulInt(c.mag, 5))

\* round(x, 0) of a signed double, as an integer.
RoundToInt(x) ==
    LET r == PyRound(x.mag, 0) \div DecScale
    IN  IF x.neg THEN -r ELSE r

Min(a, b) == IF b < a THEN b ELSE a
Max(a, b) == IF b > a THEN b ELSE a

calculate_readability_score(text) ==
    LET words == Split(text)
        sentences == Sentences(text)
        avg_word_length == AvgWordLength(words)
        avg_sentence_length == AvgSentenceLength(words, sentences)
        capped == Min(100, RoundToInt(RawReadability(avg_word_length,
                                                     avg_sentence_length)))
        readability_score == Max(20, capped)
    IN  [avg_word_length |-> IF words # <<>>
                             THEN PyFloat(PyRound(avg_word_length, 2))
                             ELSE PyInt(0),
         avg_sentence_length |-> IF sentences # <<>>
                                 THEN PyFloat(PyRound(avg_sentence_length, 2))
                                 ELSE PyInt(0),
         readability_score |-> PyInt(readability_score)]

(***************************************************************************)
(* calculate_rouge_scores.  What scorer.score(reference, candidate) does   *)
(* is the rouge_score library's, not the program's: it raises, or it       *)
(* returns three F-measures, doubles in [0, 1].  An F-measure is given as  *)
(* the fraction num/den whose nearest double it is.                        *)
(***************************************************************************)
Fmeasure(q) == IntTrueDiv(q.num, q.den)

\* The slip of leaving rougeL out of the sum.
AverageRougeTwoTerms(f1, f2, fL) ==
    PyFloat(PyRound(FloatDivInt(FloatAdd(f1, f2), 3), 3))

\* round((rouge1.fmeasure + rouge2.fmeasure + rougeL.fmeasure) / 3, 3)
AverageRouge(f1, f2, fL) ==
    PyFloat(PyRound(FloatDivInt(FloatAdd(FloatAdd(f1, f2), fL), 3), 3))

\* The slip of letting the scorer's exception out.
calculate_rouge_scores_raising(outcome) ==
    IF outcome.raised
    THEN [raised |-> TRUE, warned |-> FALSE,
          value |-> [rouge1 |-> PyNone, rouge2 |-> PyNone, rougeL |-> PyNone,
                     average |-> PyNone]]
    ELSE [raised |-> FALSE, warned |-> FALSE,
          value |-> [rouge1 |-> PyFloat(PyRound(Fmeasure(outcome.rouge1), 3)),
                     rouge2 |-> PyFloat(PyRound(Fmeasure(outcome.rouge2), 3)),
                     rougeL |-> PyFloat(PyRound(Fmeasure(outcome.rougeL), 3)),
                     average |-> AverageRouge(Fmeasure(outcome.rouge1),
                                              Fmeasure(outcome.rouge2),
                                              Fmeasure(outcome.rougeL))]]

\* outcome is what scorer.score did.  The result: whether an exception left
\* the function, whether st.error was called, and the dict returned.
calculate_rouge_scores(outcome) ==
    IF outcome.raised
    THEN [raised |-> FALSE, warned |-> TRUE,
          value |-> [rouge1 |-> PyNone, rouge2 |-> PyNone, rougeL |-> PyNone,
                     average |-> PyNone]]
    ELSE [raised |-> FALSE, warned |-> FALSE,
          value |-> [rouge1 |-> PyFloat(PyRound(Fmeasure(outcome.rouge1), 3)),
                     rouge2 |-> PyFloat(PyRound(Fmeasure(outcome.rouge2), 3)),
                     rougeL |-> PyFloat(PyRound(Fmeasure(outcome.rougeL), 3)),
                     average |-> AverageRouge(Fmeasure(outcome.rouge1),
                                              Fmeasure(outcome.rouge2),
                                              Fmeasure(outcome.rougeL))]]

(***************************************************************************)
(* The stores.  A file is absent, or exists and holds complete CSV lines;  *)
(* a line is the sequence of its cells, the blank line the empty sequence. *)
(***************************************************************************)
NoFile == [exists |-> FALSE, lines |-> <<>>]

\* open(path, "w") and one writerow: whatever was there is gone.
OpenWrite(row) == [exists |-> TRUE, lines |-> <<row>>]

\* The slip of opening the log with "w" where "a" is meant.
OpenAppendTruncating(file, row) == [exists |-> TRUE, lines |-> <<row>>]

\* What open(path, "a") and one writerow leave in the file.
OpenAppend(file, row) == [exists |-> TRUE, lines |-> Append(file.lines, row)]

EvalHeader ==
    <<Txt("timestamp"), Txt("prompt_version"), Txt("input_length"),
      Txt("rouge1_score"), Txt("rouge2_score"), Txt("rougeL_score"),
      Txt("average_rouge"), Txt("word_overlap_pct"), Txt("compression_ratio"),
      Txt("readability_score"), Txt("processing_time")>>

MetricsHeader ==
    <<Txt("timestamp"), Txt("input_length"), Txt("summary_length"),
      Txt("compression_ratio"), Txt("summary_tone"),
      Txt("summary_length_setting"), Txt("input_source"), Txt("file_type"),
      Txt("api_cost_estimate"), Txt("processing_time_seconds")>>

PROMPT_VERSIONS ==
    {"v1_basic", "v2_role_based", "v3_chain_of_thought", "v4_structured",
     "v5_context_aware"}

\* datetime.now().strftime("%Y-%m-%d %H:%M:%S") at second n.
Timestamp(n) == <<"2026-01-01 00:00:">> \o FixedDigits(n, 2)

(***************************************************************************)
(* log_prompt_evaluation                                                   *)
(***************************************************************************)
\* The slip of writing the header on every call.
EvalFileHeaderAlways(file) == OpenAppend(file, EvalHeader)

\* "Create file with headers if doesn't exist".
EvalFileWithHeader(file) ==
    IF ~file.exists THEN OpenWrite(EvalHeader) ELSE file

\* The slip of leaving the conversion out: None goes to the writer as it is.
NoneKept(v) == v

\* "Convert None to 0.0 for CSV storage".
NoneToZero(v) == IF v.ty = "none" THEN PyFloat(0) ELSE v

RoundedTime(t) == PyFloat(PyRound(DoubleOf(t), 2))

\* The slip of writing rouge2 in the rouge1 column and rouge1 in rouge2's.
EvalRowSwapped(a, now) ==
    <<Timestamp(now),
      Txt(a.prompt_version),
      PyStrInt(a.input_length),
      CsvNum(NoneToZero(a.rouge_scores.rouge2)),
      CsvNum(NoneToZero(a.rouge_scores.rouge1)),
      CsvNum(NoneToZero(a.rouge_scores.rougeL)),
      CsvNum(NoneToZero(a.rouge_scores.average)),
      CsvNum(a.basic_metrics.word_overlap_percentage),
      CsvNum(a.basic_metrics.compression_ratio),
      CsvNum(a.readability.readability_score),
      CsvNum(RoundedTime(a.processing_time))>>

EvalRow(a, now) ==
    <<Timestamp(now),
      Txt(a.prompt_version),
      PyStrInt(a.input_length),
      CsvNum(NoneToZero(a.rouge_scores.rouge1)),
      CsvNum(NoneToZero(a.rouge_scores.rouge2)),
      CsvNum(NoneToZero(a.rouge_scores.rougeL)),
      CsvNum(NoneToZero(a.rouge_scores.average)),
      CsvNum(a.basic_metrics.word_overlap_percentage),
      CsvNum(a.basic_metrics.compression_ratio),
      CsvNum(a.readability.readability_score),
      CsvNum(RoundedTime(a.processing_time))>>

LogPromptEvaluation(file, a, now) ==
    OpenAppend(EvalFileWithHeader(file), EvalRow(a, now))

(***************************************************************************)
(* csv.DictReader                                                          *)
(***************************************************************************)
\* dict(zip(fieldnames, cells)), the fields the line is too short for set to
\* None.  Cells beyond the header go under the key None, which no reader of
\* these logs looks up; they are left out.
DictRow(fieldnames, cells) ==
    [k \in Range(fieldnames) |->
        LET last == CHOOSE i \in DOMAIN fieldnames :
                        /\ fieldnames[i] = k
                        /\ \A j \in DOMAIN fieldnames : fieldnames[j] = k => j <= i
        IN  IF last <= Len(cells) THEN cells[last] ELSE NoneCell]

RECURSIVE DictRows(_, _, _)
DictRows(fieldnames, lines, i) ==
    IF i > Len(lines) THEN <<>>
    ELSE IF lines[i] = <<>> THEN DictRows(fieldnames, lines, i + 1)
    ELSE <<DictRow(fieldnames, lines[i])>> \o DictRows(fieldnames, lines, i + 1)

\* list(csv.DictReader(f)): the first line names the fields, blank lines are
\* skipped.
DictReaderRows(lines) ==
    IF lines = <<>> THEN <<>> ELSE DictRows(lines[1], lines, 2)

(***************************************************************************)
(* get_evaluation_summary                                                  *)
(***************************************************************************)
\* What float(cell) raises, or "ok".
FloatExc(cell) ==
    IF cell = NoneCell THEN "TypeError"
    ELSE IF IsDecimal(cell) THEN "ok"
    ELSE "ValueError"

\* The slip of catching ValueError alone.
FieldHandlerCatchesValueError(exc) == exc = "ValueError"

\* except (ValueError, TypeError)
FieldHandlerCatches(exc) == exc \in {"ValueError", "TypeError"}

\* try: float(row[key]) except (ValueError, TypeError): 0.0
\* A key the row lacks raises KeyError, which the handler does not catch.
FloatField(row, key) ==
    IF Txt(key) \notin DOMAIN row THEN [raised |-> TRUE, val |-> FxZero]
    ELSE LET exc == FloatExc(row[Txt(key)])
         IN  IF exc = "ok"
             THEN [raised |-> FALSE, val |-> DoubleOf(DecimalVal(row[Txt(key)]))]
             ELSE IF FieldHandlerCatches(exc)
             THEN [raised |-> FALSE, val |-> FxZero]
             ELSE [raised |-> TRUE, val |-> FxZero]

\* version_stats = {}
InitialStats == <<>>

\* The slip of starting a new entry's count at 1 and incrementing it too.
NewEntryCountOne(version) ==
    [version |-> version, count |-> 1, avg_rouge1 |-> FxZero,
     avg_rouge2 |-> FxZero, avg_rougeL |-> FxZero, avg_readability |-> FxZero,
     total_time |-> FxZero]

\* The slip of a counter that outlives the call: a new entry's count starts
\* from the count the last call reported for the version.
NewEntryCounting(version) ==
    [version |-> version,
     count |-> IF \E i \in DOMAIN lastEval.version_stats :
                      lastEval.version_stats[i].version = version
               THEN LET i == CHOOSE i \in DOMAIN lastEval.version_stats :
                                 lastEval.version_stats[i].version = version
                    IN  lastEval.version_stats[i].count
               ELSE 0,
     avg_rouge1 |-> FxZero, avg_rouge2 |-> FxZero, avg_rougeL |-> FxZero,
     avg_readability |-> FxZero, total_time |-> FxZero]

\* The entry a version gets when it is first seen.
NewEntry(version) ==
    [version |-> version, count |-> 0, avg_rouge1 |-> FxZero,
     avg_rouge2 |-> FxZero, avg_rougeL |-> FxZero, avg_readability |-> FxZero,
     total_time |-> FxZero]

\* A dict is the sequence of its entries in insertion order.
IndexOf(stats, version) ==
    IF \E i \in DOMAIN stats : stats[i].version = version
    THEN CHOOSE i \in DOMAIN stats : stats[i].version = version
    ELSE 0

\* One turn of "for row in rows".
AddRow(stats, row) ==
    IF Txt("prompt_version") \notin DOMAIN row
    THEN [raised |-> TRUE, stats |-> stats]
    ELSE
    LET version == row[Txt("prompt_version")]
        i    == IndexOf(stats, version)
        s1   == IF i = 0 THEN Append(stats, NewEntry(version)) ELSE stats
        j    == IF i = 0 THEN Len(s1) ELSE i
        e    == s1[j]
        r1   == FloatField(row, "rouge1_score")
        r2   == FloatField(row, "rouge2_score")
        rL   == FloatField(row, "rougeL_score")
        rd   == FloatField(row, "readability_score")
        pt   == FloatField(row, "processing_time")
    IN  IF r1.raised \/ r2.raised \/ rL.raised \/ rd.raised \/ pt.raised
        THEN [raised |-> TRUE, stats |-> s1]
        ELSE [raised |-> FALSE,
              stats |-> [s1 EXCEPT ![j] =
                  [version |-> version,
                   count |-> e.count + 1,
                   avg_rouge1 |-> FloatAdd(e.avg_rouge1, r1.val),
                   avg_rouge2 |-> FloatAdd(e.avg_rouge2, r2.val),
                   avg_rougeL |-> FloatAdd(e.avg_rougeL, rL.val),
                   avg_readability |-> FloatAdd(e.avg_readability, rd.val),
                   total_time |-> FloatAdd(e.total_time, pt.val)]]]

RECURSIVE AccumulateRows(_, _)
AccumulateRows(rows, n) ==
    IF n = 0 THEN [raised |-> FALSE, stats |-> InitialStats]
    ELSE LET prev == AccumulateRows(rows, n - 1)
         IN  IF prev.raised THEN prev ELSE AddRow(prev.stats, rows[n])

\* The copy-and-paste slip of averaging rouge1's sum into avg_rougeL.
FinalEntryCopyPaste(e) ==
    [version |-> e.version,
     count |-> e.count,
     avg_rouge1 |-> PyRound(FloatDivInt(e.avg_rouge1, e.count), 3),
     avg_rouge2 |-> PyRound(FloatDivInt(e.avg_rouge2, e.count), 3),
     avg_rougeL |-> PyRound(FloatDivInt(e.avg_rouge1, e.count), 3),
     avg_readability |-> PyRound(FloatDivInt(e.avg_readability, e.count), 1),
     total_time |-> e.total_time,
     avg_time |-> PyRound(FloatDivInt(e.total_time, e.count), 2)]

\* "Calculate averages": the sums become rounded means, total_time stays.
FinalEntry(e) ==
    [version |-> e.version,
     count |-> e.count,
     avg_rouge1 |-> PyRound(FloatDivInt(e.avg_rouge1, e.count), 3),
     avg_rouge2 |-> PyRound(FloatDivInt(e.avg_rouge2, e.count), 3),
     avg_rougeL |-> PyRound(FloatDivInt(e.avg_rougeL, e.count), 3),
     avg_readability |-> PyRound(FloatDivInt(e.avg_readability, e.count), 1),
     total_time |-> e.total_time,
     avg_time |-> PyRound(FloatDivInt(e.total_time, e.count), 2)]

RECURSIVE FinalStats(_, _)
FinalStats(stats, n) ==
    IF n = 0 THEN <<>>
    ELSE Append(FinalStats(stats, n - 1), FinalEntry(stats[n]))

\* The value None as the result of get_evaluation_summary.  A result is
\* marked called; the variable that holds it is NotCalled before any call.
NoSummary ==
    [called |-> TRUE, none |-> TRUE, version_stats |-> <<>>, rows |-> <<>>,
     total_evaluations |-> 0]

NotCalled == [NoSummary EXCEPT !.called = FALSE]

EvaluationSummary(file) ==
    IF ~file.exists THEN NoSummary
    ELSE LET rows == DictReaderRows(file.lines)
             acc  == AccumulateRows(rows, Len(rows))
         IN  IF rows = <<>> THEN NoSummary
             ELSE IF acc.raised THEN NoSummary
             ELSE [called |-> TRUE,
                   none |-> FALSE,
                   version_stats |-> FinalStats(acc.stats, Len(acc.stats)),
                   rows |-> rows,
                   total_evaluations |-> Len(rows)]

(***************************************************************************)
(* get_metrics_file, log_summary                                           *)
(***************************************************************************)
\* "Create file with headers if it doesn't exist"; the path is returned.
get_metrics_file(file) ==
    IF ~file.exists THEN OpenWrite(MetricsHeader) ELSE file

\* round((input_length / 4 * 0.0005 + summary_length / 4 * 0.0015) / 1000, 4)
\* times 10^DecPlaces, in exact arithmetic: (5 in + 15 out) / 4000 rounded to
\* the nearest integer, ties to even.
ApiCost(input_length, summary_length) ==
    LET num == 5 * input_length + 15 * summary_length
        q   == num \div 4000
        r   == num % 4000
    IN  IF 2 * r > 4000 \/ (2 * r = 4000 /\ q % 2 = 1) THEN q + 1 ELSE q

\* file_type or "N/A"
FileTypeOrNA(file_type) ==
    IF file_type = NoneCell \/ file_type = <<>> THEN Txt("N/A") ELSE file_type

MetricsRow(a, now) ==
    <<Timestamp(now),
      PyStrInt(a.input_length),
      PyStrInt(a.summary_length),
      CsvNum(a.compression_ratio),
      Txt(a.tone),
      Txt(a.length_setting),
      Txt(a.input_source),
      FileTypeOrNA(a.file_type),
      PyStrFloat(ApiCost(a.input_length, a.summary_length)),
      CsvNum(RoundedTime(a.processing_time))>>

\* The slip of a log_summary that creates the file and writes no row.
LogSummaryHeaderOnly(file, a, now) == get_metrics_file(file)

LogSummary(file, a, now) ==
    OpenAppend(get_metrics_file(file), MetricsRow(a, now))

(***************************************************************************)
(* get_metrics_summary                                                     *)
(***************************************************************************)
IsIntLiteral(s) ==
    /\ s # NoneCell
    /\ s # <<>>
    /\ \A i \in 1..Len(s) : IsDigit(s[i])

MetricsKeys ==
    {"input_length", "summary_length", "compression_ratio",
     "api_cost_estimate", "processing_time_seconds", "input_source",
     "summary_tone", "summary_length_setting"}

\* int(row[key]) or float(row[key]) outside any inner handler raises for
\* this row.
StrictFieldsRaise(row) ==
    \/ ~IsIntLiteral(row[Txt("input_length")])
    \/ ~IsIntLiteral(row[Txt("summary_length")])
    \/ FloatExc(row[Txt("api_cost_estimate")]) # "ok"

RECURSIVE IntTotal(_, _, _)
IntTotal(rows, key, n) ==
    IF n = 0 THEN 0
    ELSE IntTotal(rows, key, n - 1) + DigitsValue(rows[n][Txt(key)])

\* The floats of the column that parse, in row order; with strict the others
\* are not skipped (the caller has ruled them out).
RECURSIVE ParsedFloats(_, _, _)
ParsedFloats(rows, key, n) ==
    IF n = 0 THEN <<>>
    ELSE IF FloatExc(rows[n][Txt(key)]) = "ok"
    THEN Append(ParsedFloats(rows, key, n - 1),
                DoubleOf(DecimalVal(rows[n][Txt(key)])))
    ELSE ParsedFloats(rows, key, n - 1)

\* sum(list) of floats: a left fold from 0.
RECURSIVE FloatSum(_, _)
FloatSum(xs, n) ==
    IF n = 0 THEN FxZero ELSE FloatAdd(FloatSum(xs, n - 1), xs[n])

\* sum(xs) / len(xs) if xs else 0
FloatMean(xs) ==
    IF xs = <<>> THEN FxZero ELSE FloatDivInt(FloatSum(xs, Len(xs)), Len(xs))

CountWhere(rows, key, value) ==
    Cardinality({i \in DOMAIN rows : rows[i][Txt(key)] = value})

\* counts[v] = counts.get(v, 0) + 1 over the rows: a dict in insertion
\* order, as the sequence of its [key, count] entries.
RECURSIVE Distribution(_, _, _)
Distribution(rows, key, n) ==
    IF n = 0 THEN <<>>
    ELSE LET prev == Distribution(rows, key, n - 1)
             v    == rows[n][Txt(key)]
             hit  == {i \in DOMAIN prev : prev[i].key = v}
         IN  IF hit = {} THEN Append(prev, [key |-> v, count |-> 1])
             ELSE LET i == CHOOSE i \in hit : TRUE
                  IN  [prev EXCEPT ![i] = [key |-> v, count |-> prev[i].count + 1]]

NoMetrics ==
    [called |-> TRUE, none |-> TRUE, total_summaries |-> 0, total_input_chars |-> 0,
     total_output_chars |-> 0, avg_compression_ratio |-> 0,
     total_cost_usd |-> 0, avg_processing_time |-> 0, text_uploads |-> 0,
     file_uploads |-> 0, tone_distribution |-> <<>>,
     length_distribution |-> <<>>, rows |-> <<>>]

MetricsNotCalled == [NoMetrics EXCEPT !.called = FALSE]

\* The body of get_metrics_summary once get_metrics_file has returned.
MetricsSummary(file) ==
    IF ~file.exists THEN NoMetrics
    ELSE LET rows == DictReaderRows(file.lines)
             n    == Len(rows)
         IN  IF rows = <<>> THEN NoMetrics
             ELSE IF \E i \in 1..n : \E k \in MetricsKeys : Txt(k) \notin DOMAIN rows[i]
             THEN NoMetrics
             ELSE IF \E i \in 1..n : StrictFieldsRaise(rows[i])
             THEN NoMetrics
             ELSE [called |-> TRUE,
                   none |-> FALSE,
                   total_summaries |-> n,
                   total_input_chars |-> IntTotal(rows, "input_length", n),
                   total_output_chars |-> IntTotal(rows, "summary_length", n),
                   avg_compression_ratio |->
                       PyRound(FloatMean(ParsedFloats(rows, "compression_ratio", n)), 2),
                   total_cost_usd |->
                       PyRound(LET xs == ParsedFloats(rows, "api_cost_estimate", n)
                               IN  FloatSum(xs, Len(xs)), 4),
                   avg_processing_time |->
                       PyRound(FloatMean(ParsedFloats(rows, "processing_time_seconds", n)), 2),
                   text_uploads |-> CountWhere(rows, "input_source", Txt("text")),
                   file_uploads |-> CountWhere(rows, "input_source", Txt("file")),
                   tone_distribution |-> Distribution(rows, "summary_tone", n),
                   length_distribution |-> Distribution(rows, "summary_length_setting", n),
                   rows |-> rows]

(***************************************************************************)
(* The inputs of the model.                                                *)
(***************************************************************************)
Scores(r1, r2, rL, avg) ==
    [rouge1 |-> r1, rouge2 |-> r2, rougeL |-> rL, average |-> avg]

EvalArg(version, scores, overlap, ratio, readability, time) ==
    [prompt_version |-> version,
     input_length |-> 1200,
     rouge_scores |-> scores,
     basic_metrics |-> [word_overlap_percentage |-> overlap,
                        compression_ratio |-> ratio],
     readability |-> [readability_score |-> readability],
     processing_time |-> time]

\* Calls the generation loop makes: two scored runs of one strategy and a
\* run of another whose scorer failed (all scores None).
EvalArgs ==
    {EvalArg("v1_basic",
             Scores(PyFloat(5000), PyFloat(2500), PyFloat(4000), PyFloat(3830)),
             PyFloat(333300), PyFloat(125000), PyInt(75), 12340),
     EvalArg("v1_basic",
             Scores(PyFloat(7000), PyFloat(3330), PyFloat(6000), PyFloat(5440)),
             PyFloat(500000), PyFloat(250000), PyInt(62), 25000),
     EvalArg("v2_role_based",
             Scores(PyNone, PyNone, PyNone, PyNone),
             PyFloat(250000), PyFloat(125000), PyInt(80), 8750)}

UsageArgs ==
    {[input_length |-> 1200, summary_length |-> 300,
      compression_ratio |-> PyFloat(250000), tone |-> "Neutral",
      length_setting |-> "Medium", input_source |-> "text",
      file_type |-> NoneCell, processing_time |-> 12340],
     [input_length |-> 800, summary_length |-> 200,
      compression_ratio |-> PyFloat(250000), tone |-> "Casual",
      length_setting |-> "Short", input_source |-> "file",
      file_type |-> Txt("pdf"), processing_time |-> 25000]}

\* Lines someone else may have left in the evaluation log: two well-formed
\* records, a record cut short after its first score (a partial write), a
\* record with an empty and a non-numeric cell, and a blank line.
AggLines ==
    {<<Timestamp(1), Txt("v1_basic"), PyStrInt(1200), PyStrFloat(5000),
       PyStrFloat(2500), PyStrFloat(4000), PyStrFloat(3830), PyStrFloat(333300),
       PyStrFloat(125000), PyStrInt(75), PyStrFloat(12300)>>,
     <<Timestamp(2), Txt("v1_basic"), PyStrInt(1200), PyStrFloat(2250),
       PyStrFloat(3330), PyStrFloat(6000), PyStrFloat(3860), PyStrFloat(500000),
       PyStrFloat(250000), PyStrInt(62), PyStrFloat(25000)>>,
     <<Timestamp(3), Txt("v2_role_based"), PyStrInt(1200), PyStrFloat(7000)>>,
     <<Timestamp(4), Txt("v1_basic"), PyStrInt(1200), <<>>,
       PyStrFloat(2500), PyStrFloat(4000), PyStrFloat(3830), PyStrFloat(333300),
       PyStrFloat(125000), Txt("n/a"), PyStrFloat(8800)>>,
     <<>>}

\* The records in a store: its lines but the header.
DataLines(file) == IF file.lines = <<>> THEN <<>> ELSE Tail(file.lines)

\* datetime.now() at a write.  No operation reads a stamp; the time of a write
\* is taken to be the number of records its log holds, so that the records
\* of a log carry increasing stamps.
Now(file) == Len(DataLines(file))

\* No session is in log_prompt_evaluation.
NoWriters == [store |-> NoFile, order |-> <<>>, proc |-> <<>>]

NoCalls ==
    /\ writers = NoWriters
    /\ lastEval = NotCalled
    /\ lastMetrics = MetricsNotCalled
    /\ passed = <<>>
    /\ pending = 0
    /\ between = 0
    /\ prevEval = NotCalled

\* No metric function is being called.
NoCalc ==
    /\ args = [fn |-> "none"]
    /\ ret = [done |-> FALSE]

\* The generation loop is not running.
NoLocals == [summary_text |-> <<>>]

NoHistory ==
    [attempted |-> <<>>, generation_failed |-> {}, generated |-> {},
     scorer_failed |-> {}, warned |-> {}, usage_failed |-> {},
     eval_failed |-> {}]

NoBatch ==
    /\ selected_versions = <<>>
    /\ reference_summary = NoneCell
    /\ pc = "idle"
    /\ pos = 0
    /\ locals = NoLocals
    /\ results_cache = <<>>
    /\ reported = <<>>
    /\ hist = NoHistory

Init ==
    /\ evalFile = NoFile
    /\ metricsFile = NoFile
    /\ NoCalls
    /\ NoCalc
    /\ NoBatch

RoomLeft == Len(DataLines(evalFile)) + Len(DataLines(metricsFile)) < MaxRows

log_prompt_evaluation ==
    /\ RoomLeft
    /\ \E a \in EvalArgs :
          /\ evalFile' = LogPromptEvaluation(evalFile, a, Now(evalFile))
          /\ passed' = Append(passed, a)
    /\ pending' = pending + 1
    /\ UNCHANGED <<metricsFile, lastEval, lastMetrics, between, prevEval>>
    /\ UNCHANGED <<calcVars, batchVars, concVars>>

log_summary ==
    /\ RoomLeft
    /\ \E a \in UsageArgs : metricsFile' = LogSummary(metricsFile, a, Now(metricsFile))
    /\ UNCHANGED <<evalFile, lastEval, lastMetrics, passed, pending, between,
                   prevEval>>
    /\ UNCHANGED <<calcVars, batchVars, concVars>>

\* The slip of a cache: once a summary has been computed it is returned again.
get_evaluation_summary_cached ==
    /\ lastEval' = IF lastEval.called /\ ~lastEval.none THEN lastEval
                    ELSE EvaluationSummary(evalFile)
    /\ prevEval' = lastEval
    /\ between' = pending
    /\ pending' = 0
    /\ UNCHANGED <<evalFile, metricsFile, lastMetrics, passed>>
    /\ UNCHANGED <<calcVars, batchVars, concVars>>

get_evaluation_summary ==
    /\ lastEval' = EvaluationSummary(evalFile)
    /\ prevEval' = lastEval
    /\ between' = pending
    /\ pending' = 0
    /\ UNCHANGED <<evalFile, metricsFile, lastMetrics, passed>>
    /\ UNCHANGED <<calcVars, batchVars, concVars>>

get_metrics_summary ==
    /\ metricsFile' = get_metrics_file(metricsFile)
    /\ lastMetrics' = MetricsSummary(metricsFile')
    /\ UNCHANGED <<evalFile, lastEval, passed, pending, between,
                   prevEval>>
    /\ UNCHANGED <<calcVars, batchVars, concVars>>

Next ==
    \/ log_prompt_evaluation
    \/ log_summary
    \/ get_evaluation_summary
    \/ get_metrics_summary

Spec == Init /\ [][Next]_vars

(***************************************************************************)
(* The aggregation on its own: the evaluation log is whatever was left on  *)
(* disk (an absent, empty or foreign file, or the header and up to         *)
(* MaxAggRows lines), and get_evaluation_summary reads it.                 *)
(***************************************************************************)
AggFiles ==
    {NoFile, [exists |-> TRUE, lines |-> <<>>]}
    \cup {[exists |-> TRUE, lines |-> <<MetricsHeader>> \o ls] :
            ls \in UNION {[1..n -> AggLines] : n \in 0..1}}
    \cup {[exists |-> TRUE, lines |-> <<EvalHeader>> \o ls] :
            ls \in UNION {[1..n -> AggLines] : n \in 0..MaxAggRows}}

InitAgg ==
    /\ evalFile \in AggFiles
    /\ metricsFile = NoFile
    /\ NoCalls
    /\ NoCalc
    /\ NoBatch

NextAgg == get_evaluation_summary

SpecAgg == InitAgg /\ [][NextAgg]_vars

(***************************************************************************)
(* The readers of the usage log on their own: the log is whatever was left *)
(* on disk (absent, empty, or the header and up to MaxUsageRows lines),    *)
(* and get_metrics_summary and get_recent_summaries read it.               *)
(***************************************************************************)
\* The line with its i-th cell replaced.
WithCell(line, i, cell) == [line EXCEPT ![i] = cell]

\* A line as log_summary writes it.
WrittenUsageLine(n) ==
    MetricsRow([input_length |-> 1200, summary_length |-> 300,
                compression_ratio |-> PyFloat(250000), tone |-> "Neutral",
                length_setting |-> "Medium", input_source |-> "text",
                file_type |-> NoneCell, processing_time |-> 12340], n)

\* Lines someone may have left in the usage log: two records as log_summary
\* writes them, a record with an empty compression_ratio, one with a
\* non-numeric processing_time_seconds, one with a non-numeric input_length,
\* one with an empty api_cost_estimate, and a record cut short after its
\* third cell (a partial write).
UsageLines ==
    {WrittenUsageLine(1),
     MetricsRow([input_length |-> 800, summary_length |-> 200,
                 compression_ratio |-> PyFloat(333300), tone |-> "Casual",
                 length_setting |-> "Short", input_source |-> "file",
                 file_type |-> Txt("pdf"), processing_time |-> 25000], 2),
     WithCell(WrittenUsageLine(3), 4, <<>>),
     WithCell(WrittenUsageLine(4), 10, Txt("n/a")),
     WithCell(WrittenUsageLine(5), 2, Txt("n/a")),
     WithCell(WrittenUsageLine(6), 9, <<>>),
     SubSeq(WrittenUsageLine(7), 1, 3)}

UsageFiles ==
    {NoFile, [exists |-> TRUE, lines |-> <<>>]}
    \cup {[exists |-> TRUE, lines |-> <<MetricsHeader>> \o ls] :
            ls \in UNION {[1..n -> UsageLines] : n \in 0..MaxUsageRows}}

\* seq[start:] of Python.
SliceFrom(seq, start) ==
    LET lo == IF start < 0
              THEN (IF Len(seq) + start < 0 THEN 0 ELSE Len(seq) + start)
              ELSE (IF start > Len(seq) THEN Len(seq) ELSE start)
    IN  SubSeq(seq, lo + 1, Len(seq))

\* metrics["rows"][-limit:] if metrics else []
RecentSummaries(metrics, limit) ==
    IF ~metrics.none THEN SliceFrom(metrics.rows, -limit) ELSE <<>>

InitUsage ==
    /\ evalFile = NoFile
    /\ metricsFile \in UsageFiles
    /\ NoCalls
    /\ NoCalc
    /\ NoBatch

get_recent_summaries ==
    /\ \E limit \in 0..MaxLimit :
          /\ args' = [fn |-> "get_recent_summaries", limit |-> limit]
          /\ metricsFile' = get_metrics_file(metricsFile)
          /\ ret' = [done |-> TRUE,
                     value |-> RecentSummaries(MetricsSummary(metricsFile'),
                                               limit)]
    /\ UNCHANGED <<evalFile, lastEval, lastMetrics, passed, pending, between,
                   prevEval, batchVars, concVars>>

NextUsage ==
    \/ get_metrics_summary
    \/ get_recent_summaries

SpecUsage == InitUsage /\ [][NextUsage]_vars

(***************************************************************************)
(* The metric functions on their own: one call of calculate_rouge_scores,  *)
(* calculate_basic_metrics or calculate_readability_score.                 *)
(***************************************************************************)
\* The fractions k/n in [0, 1] with n <= MaxDen.
Fractions == {q \in [num : 0..MaxDen, den : 1..MaxDen] : q.num <= q.den}

ScorerRaises ==
    [raised |-> TRUE, rouge1 |-> [num |-> 0, den |-> 1],
     rouge2 |-> [num |-> 0, den |-> 1], rougeL |-> [num |-> 0, den |-> 1]]

ScorerOutcomes ==
    {ScorerRaises}
    \cup {[raised |-> FALSE, rouge1 |-> f1, rouge2 |-> f2, rougeL |-> fL] :
            f1 \in Fractions, f2 \in Fractions, fL \in Fractions}

\* The texts of at most n characters of chars.
RECURSIVE TextsOver(_, _)
TextsOver(chars, n) ==
    IF n = 0 THEN {<<>>}
    ELSE LET shorter == TextsOver(chars, n - 1)
         IN  shorter \cup {Append(t, c) : t \in shorter, c \in chars}

BasicTexts == TextsOver({"a", "B", " "}, MaxTextLen)

\* The texts that at most n pieces make: a one-letter word, a twelve-letter
\* word, a blank, a full stop.
TextPieces ==
    {<<"a">>, <<"b", "b", "b", "b", "b", "b", "b", "b", "b", "b", "b", "b">>,
     <<" ">>, <<".">>}

RECURSIVE TextsOfPieces(_)
TextsOfPieces(n) ==
    IF n = 0 THEN {<<>>}
    ELSE LET shorter == TextsOfPieces(n - 1)
         IN  shorter \cup {t \o piece : t \in shorter, piece \in TextPieces}

ReadabilityTexts == TextsOfPieces(MaxPieces)

CalcArgs ==
    {[fn |-> "calculate_rouge_scores", outcome |-> o] : o \in ScorerOutcomes}
    \cup {[fn |-> "calculate_basic_metrics", reference |-> r, candidate |-> c] :
            r \in BasicTexts, c \in BasicTexts}
    \cup {[fn |-> "calculate_readability_score", text |-> t] :
            t \in ReadabilityTexts}

InitCalc ==
    /\ evalFile = NoFile
    /\ metricsFile = NoFile
    /\ NoCalls
    /\ NoBatch
    /\ args \in CalcArgs
    /\ ret = [done |-> FALSE]

Returns(value) ==
    /\ ~ret.done
    /\ ret' = [done |-> TRUE, value |-> value]
    /\ UNCHANGED <<evalFile, metricsFile, lastEval, lastMetrics, passed,
                   pending, between, prevEval, args, batchVars,
                   concVars>>

call_calculate_rouge_scores ==
    /\ args.fn = "calculate_rouge_scores"
    /\ Returns(calculate_rouge_scores(args.outcome))

call_calculate_basic_metrics ==
    /\ args.fn = "calculate_basic_metrics"
    /\ Returns(calculate_basic_metrics(args.reference, args.candidate))

call_calculate_readability_score ==
    /\ args.fn = "calculate_readability_score"
    /\ Returns(calculate_readability_score(args.text))

NextCalc ==
    \/ call_calculate_rouge_scores
    \/ call_calculate_basic_metrics
    \/ call_calculate_readability_score

SpecCalc == InitCalc /\ [][NextCalc]_vars

(***************************************************************************)
(* The generation loop of the app (app.py:472-522), one step per call that *)
(* may raise.  pc is the call the iteration for selected_versions[pos] is  *)
(* about to make: "lookup" (get_prompt_template), "generate" (the client   *)
(* call and the metric functions), "log_summary", "log_evaluation"         *)
(* (log_prompt_evaluation), "store" (results_cache[v_key] = ...); "done"   *)
(* after the loop; "aborted" when an exception has left the loop.          *)
(***************************************************************************)
\* An id that is not a key of PROMPT_VERSIONS.
UnknownVersion == "v9_unknown"

BatchVersions == {"v1_basic", "v2_role_based", UnknownVersion}

Distinct(seq) == \A i, j \in DOMAIN seq : seq[i] = seq[j] => i = j

RECURSIVE ListsOf(_, _)
ListsOf(elems, n) ==
    IF n = 0 THEN {<<>>}
    ELSE LET shorter == ListsOf(elems, n - 1)
         IN  shorter \cup {Append(l, e) : l \in shorter, e \in elems}

\* What the multiselect may hold when the button is pressed
\* ("if selected_versions:"): a non-empty list of distinct ids.
Selections ==
    {l \in ListsOf(BatchVersions, MaxBatch) : l # <<>> /\ Distinct(l)}

\* reference_summary: None (scoring not enabled), the empty text area, or a
\* text.
References == {NoneCell, <<>>, <<"a", ".">>}

\* The slip of testing "reference_summary is not None".
TruthyNotNone(text) == text # NoneCell

\* "if reference_summary:"
Truthy(text) == text # NoneCell /\ text # <<>>

user_input == <<"a", " ", "b", ".">>

\* response.choices[0].message.content of a call that returned.
GeneratedText == <<"a", ".">>

\* time.time() - start, times 10^DecPlaces.
Duration == 12340

\* What scorer.score may do in a run of the loop.
LoopScorerOutcomes ==
    {ScorerRaises,
     [raised |-> FALSE, rouge1 |-> [num |-> 1, den |-> 2],
      rouge2 |-> [num |-> 1, den |-> 4], rougeL |-> [num |-> 1, den |-> 2]]}

\* Whether get_prompt_template(version_key) raises ValueError.
get_prompt_template_raises(version_key) == version_key \notin PROMPT_VERSIONS

\* rouge = {"rougeL": None}
NoRouge == [rougeL |-> PyNone]

v_key == selected_versions[pos]

\* The arguments of log_summary at app.py:505.
LoopUsageArg ==
    [input_length |-> Len(user_input),
     summary_length |-> Len(locals.summary_text),
     compression_ratio |-> locals.basic.compression_ratio,
     tone |-> "Neutral", length_setting |-> "Medium",
     input_source |-> "text", file_type |-> NoneCell,
     processing_time |-> locals.duration]

\* The arguments of log_prompt_evaluation at app.py:508.
LoopEvalArg ==
    [prompt_version |-> v_key,
     input_length |-> Len(user_input),
     rouge_scores |-> locals.rouge,
     basic_metrics |-> locals.basic,
     readability |-> locals.readability,
     processing_time |-> locals.duration]

\* results_cache[v_key] = {...}
StoredResult ==
    [text |-> locals.summary_text, time |-> locals.duration,
     metrics |-> locals.basic, readability |-> locals.readability,
     rouge |-> locals.rouge]

SetItem(dict, key, value) ==
    [k \in DOMAIN dict \cup {key} |-> IF k = key THEN value ELSE dict[k]]

InitBatch ==
    /\ evalFile = NoFile
    /\ metricsFile = NoFile
    /\ NoCalls
    /\ NoCalc
    /\ selected_versions \in Selections
    /\ reference_summary \in References
    /\ pc = "lookup"
    /\ pos = 1
    /\ locals = NoLocals
    /\ results_cache = <<>>
    /\ reported = <<>>
    /\ hist = NoHistory

LoopFrame ==
    UNCHANGED <<lastEval, lastMetrics, pending, between, prevEval, calcVars,
                selected_versions, reference_summary, concVars>>

\* The end of an iteration: on to the next strategy, or out of the loop.
NextIteration ==
    /\ pos' = pos + 1
    /\ pc' = IF pos < Len(selected_versions) THEN "lookup" ELSE "done"
    /\ locals' = NoLocals

\* "except Exception as e: status.write(...)"
ReportError == reported' = Append(reported, v_key)

\* Lines 473-483, before the try: the template lookup.
loop_get_prompt_template ==
    /\ pc = "lookup"
    /\ hist' = [hist EXCEPT !.attempted = Append(@, v_key)]
    /\ pc' = IF get_prompt_template_raises(v_key) THEN "aborted" ELSE "generate"
    /\ UNCHANGED <<evalFile, metricsFile, passed, pos, locals, results_cache,
                   reported>>
    /\ LoopFrame

\* Lines 486-502: the client call returns and the metrics are computed;
\* outcome is what scorer.score does if it is called.  An exception that
\* calculate_rouge_scores let out would be caught at 519-520.
loop_generate ==
    /\ pc = "generate"
    /\ \E outcome \in LoopScorerOutcomes :
          LET rouge == calculate_rouge_scores(outcome)
              scored == Truthy(reference_summary)
          IN  IF scored /\ rouge.raised
              THEN /\ ReportError
                   /\ hist' = [hist EXCEPT !.generated = @ \cup {v_key},
                                           !.scorer_failed = @ \cup {v_key}]
                   /\ NextIteration
              ELSE /\ locals' =
                         [summary_text |-> GeneratedText,
                          duration |-> Duration,
                          basic |-> calculate_basic_metrics(user_input,
                                                            GeneratedText),
                          readability |->
                              calculate_readability_score(GeneratedText),
                          rouge |-> IF scored THEN rouge.value ELSE NoRouge]
                   /\ hist' = [hist EXCEPT
                                 !.generated = @ \cup {v_key},
                                 !.scorer_failed =
                                     IF scored /\ outcome.raised
                                     THEN @ \cup {v_key} ELSE @,
                                 !.warned =
                                     IF scored /\ rouge.warned
                                     THEN @ \cup {v_key} ELSE @]
                   /\ pc' = "log_summary"
                   /\ UNCHANGED <<pos, reported>>
    /\ UNCHANGED <<evalFile, metricsFile, passed, results_cache>>
    /\ LoopFrame

\* The slip of a client call outside the try: its exception leaves the loop.
loop_generate_raises_uncaught ==
    /\ pc = "generate"
    /\ hist' = [hist EXCEPT !.generation_failed = @ \cup {v_key}]
    /\ pc' = "aborted"
    /\ UNCHANGED <<evalFile, metricsFile, passed, pos, locals, results_cache,
                   reported>>
    /\ LoopFrame

\* Lines 486-491, then 519-520: the client call raises.
loop_generate_raises ==
    /\ pc = "generate"
    /\ ReportError
    /\ hist' = [hist EXCEPT !.generation_failed = @ \cup {v_key}]
    /\ NextIteration
    /\ UNCHANGED <<evalFile, metricsFile, passed, results_cache>>
    /\ LoopFrame

\* The slip of logging the usage only when there is a reference.
loop_log_summary_if_reference ==
    /\ pc = "log_summary"
    /\ metricsFile' = IF Truthy(reference_summary)
                      THEN LogSummary(metricsFile, LoopUsageArg, Now(metricsFile))
                      ELSE metricsFile
    /\ pc' = IF Truthy(reference_summary) THEN "log_evaluation" ELSE "store"
    /\ UNCHANGED <<evalFile, passed, pos, locals, results_cache, reported, hist>>
    /\ LoopFrame

\* Line 505: log_summary returns.
loop_log_summary ==
    /\ pc = "log_summary"
    /\ metricsFile' = LogSummary(metricsFile, LoopUsageArg, Now(metricsFile))
    /\ pc' = IF Truthy(reference_summary) THEN "log_evaluation" ELSE "store"
    /\ UNCHANGED <<evalFile, passed, pos, locals, results_cache, reported, hist>>
    /\ LoopFrame

\* Line 505, then 519-520: the usage log cannot be opened and log_summary
\* raises.
loop_log_summary_raises ==
    /\ pc = "log_summary"
    /\ ReportError
    /\ hist' = [hist EXCEPT !.usage_failed = @ \cup {v_key}]
    /\ NextIteration
    /\ UNCHANGED <<evalFile, metricsFile, passed, results_cache>>
    /\ LoopFrame

\* Line 508: log_prompt_evaluation returns.
loop_log_prompt_evaluation ==
    /\ pc = "log_evaluation"
    /\ evalFile' = LogPromptEvaluation(evalFile, LoopEvalArg, Now(evalFile))
    /\ passed' = Append(passed, LoopEvalArg)
    /\ pc' = "store"
    /\ UNCHANGED <<metricsFile, pos, locals, results_cache, reported, hist>>
    /\ LoopFrame

\* Line 508, then 519-520: the evaluation log cannot be opened and
\* log_prompt_evaluation raises.
loop_log_prompt_evaluation_raises ==
    /\ pc = "log_evaluation"
    /\ ReportError
    /\ hist' = [hist EXCEPT !.eval_failed = @ \cup {v_key}]
    /\ NextIteration
    /\ UNCHANGED <<evalFile, metricsFile, passed, results_cache>>
    /\ LoopFrame

\* Lines 510-517: the result is stored.
loop_store ==
    /\ pc = "store"
    /\ results_cache' = SetItem(results_cache, v_key, StoredResult)
    /\ NextIteration
    /\ UNCHANGED <<evalFile, metricsFile, passed, reported, hist>>
    /\ LoopFrame

NextBatch ==
    \/ loop_get_prompt_template
    \/ loop_generate
    \/ loop_generate_raises
    \/ loop_log_summary
    \/ loop_log_summary_raises
    \/ loop_log_prompt_evaluation
    \/ loop_log_prompt_evaluation_raises
    \/ loop_store

SpecBatch == InitBatch /\ [][NextBatch]_vars

(***************************************************************************)
(* Two sessions in log_prompt_evaluation at the same time on one store.    *)
(* Each takes three steps: the test os.path.exists (evaluation.py:130),    *)
(* the creation of the file with its header by open(.., "w")               *)
(* (evaluation.py:131-146) when the test found no file, and the append by  *)
(* open(.., "a") (evaluation.py:158-172).  A step is atomic.               *)
(***************************************************************************)
Sessions == {"session1", "session2"}

\* The slip of leaving the test out: the header is written on every call.
ExistsNever(file) == FALSE

\* os.path.exists(eval_file)
Exists(file) == file.exists

\* The log the sessions start from: absent, or the header and one record.
ConcStores ==
    {NoFile} \cup {LogPromptEvaluation(NoFile, a, 0) : a \in EvalArgs}

InitConc ==
    /\ evalFile \in ConcStores
    /\ metricsFile = NoFile
    /\ lastEval = NotCalled
    /\ lastMetrics = MetricsNotCalled
    /\ passed = <<>>
    /\ pending = 0
    /\ between = 0
    /\ prevEval = NotCalled
    /\ NoCalc
    /\ NoBatch
    /\ \E proc \in [Sessions -> {[pc |-> "check", a |-> a] : a \in EvalArgs}] :
          writers = [store |-> evalFile, order |-> <<>>, proc |-> proc]

ConcFrame ==
    UNCHANGED <<metricsFile, lastEval, lastMetrics, passed, pending, between,
                prevEval, calcVars, batchVars>>

\* "if not os.path.exists(eval_file):"
writer_exists_check ==
    /\ \E p \in DOMAIN writers.proc :
          /\ writers.proc[p].pc = "check"
          /\ writers' = [writers EXCEPT !.proc[p].pc =
                            IF Exists(evalFile) THEN "append" ELSE "create"]
    /\ UNCHANGED evalFile
    /\ ConcFrame

\* "with open(eval_file, "w", newline="") as f:" and the header row.
writer_create_header ==
    /\ \E p \in DOMAIN writers.proc :
          /\ writers.proc[p].pc = "create"
          /\ writers' = [writers EXCEPT !.proc[p].pc = "append"]
    /\ evalFile' = OpenWrite(EvalHeader)
    /\ ConcFrame

\* "with open(eval_file, "a", newline="") as f:" and the record.
writer_append ==
    /\ \E p \in DOMAIN writers.proc :
          /\ writers.proc[p].pc = "append"
          /\ LET row == EvalRow(writers.proc[p].a, Now(evalFile))
             IN  /\ evalFile' = OpenAppend(evalFile, row)
                 /\ writers' = [writers EXCEPT !.proc[p].pc = "done",
                                               !.order = Append(@, row)]
    /\ ConcFrame

NextConc ==
    \/ writer_exists_check
    \/ writer_create_header
    \/ writer_append

SpecConc == InitConc /\ [][NextConc]_vars

(***************************************************************************)
(* What the summaries say, read back from the result of a call.            *)
(***************************************************************************)
\* The number a cell stands for, times 10^DecPlaces; 0 where it has none.
CellVal(cell) == IF FloatExc(cell) = "ok" THEN DecimalVal(cell) ELSE 0

VersionOf(row) == row[Txt("prompt_version")]

RowsWith(summary, version) ==
    {i \in DOMAIN summary.rows : VersionOf(summary.rows[i]) = version}

HasEntry(summary, version) ==
    \E i \in DOMAIN summary.version_stats :
        summary.version_stats[i].version = version

EntryOf(summary, version) ==
    summary.version_stats[CHOOSE i \in DOMAIN summary.version_stats :
                              summary.version_stats[i].version = version]

\* The count a summary reports for a version; nothing reported counts as 0.
CountOf(summary, version) ==
    IF HasEntry(summary, version) THEN EntryOf(summary, version).count ELSE 0

RECURSIVE SumCells(_, _, _, _)
SumCells(rows, version, key, n) ==
    IF n = 0 THEN 0
    ELSE SumCells(rows, version, key, n - 1)
         + (IF VersionOf(rows[n]) = version THEN CellVal(rows[n][Txt(key)])
            ELSE 0)

FieldSum(summary, version, key) ==
    SumCells(summary.rows, version, key, Len(summary.rows))

Abs(x) == IF x < 0 THEN -x ELSE x

\* avg is the mean of the field over the version's rows, rounded to a
\* multiple of unit: a multiple of unit at most half a unit from the mean.
IsRoundedMean(avg, summary, version, key, unit) ==
    LET n == Cardinality(RowsWith(summary, version))
    IN  /\ avg % unit = 0
        /\ 2 * Abs(avg * n - FieldSum(summary, version, key)) <= n * unit

\* The last summary was computed from the log as it is now.
SummaryIsCurrent == lastEval.called /\ pending = 0

(***************************************************************************)
(* C1                                                                      *)
(***************************************************************************)
\* C1: the evaluation log is append-only.  Every step leaves each line of the
\* log (the header included) where it was and as it was, and a call of
\* log_prompt_evaluation adds exactly one record, at the end, the record of
\* the call.
C1_AppendOnly ==
    [][/\ Len(evalFile'.lines) >= Len(evalFile.lines)
       /\ \A i \in 1..Len(evalFile.lines) : evalFile'.lines[i] = evalFile.lines[i]
       /\ Len(passed') = Len(passed) + 1 =>
            /\ evalFile'.exists
            /\ Len(DataLines(evalFile')) = Len(DataLines(evalFile)) + 1
            /\ evalFile'.lines[Len(evalFile'.lines)][2]
                 = Txt(passed'[Len(passed')].prompt_version)
            /\ evalFile.exists => Len(evalFile'.lines) = Len(evalFile.lines) + 1
      ]_vars

C1_Witness ==
    /\ Len(passed) >= 2
    /\ Len(DataLines(evalFile)) = Len(passed)
    /\ evalFile.lines[1] = EvalHeader

(***************************************************************************)
(* C2                                                                      *)
(***************************************************************************)
\* The cell holds the number v.  Where v is None it holds 0.0 if noneAsZero,
\* and no number otherwise.
Carries(cell, v, noneAsZero) ==
    IF v.ty = "none" /\ ~noneAsZero THEN FloatExc(cell) # "ok"
    ELSE /\ FloatExc(cell) = "ok"
         /\ DecimalVal(cell) = (IF v.ty = "none" THEN 0 ELSE v.val)

RowCarries(row, a, z) ==
    /\ VersionOf(row) = Txt(a.prompt_version)
    /\ Carries(row[Txt("rouge1_score")], a.rouge_scores.rouge1, z)
    /\ Carries(row[Txt("rouge2_score")], a.rouge_scores.rouge2, z)
    /\ Carries(row[Txt("rougeL_score")], a.rouge_scores.rougeL, z)
    /\ Carries(row[Txt("average_rouge")], a.rouge_scores.average, z)
    /\ Carries(row[Txt("word_overlap_pct")],
               a.basic_metrics.word_overlap_percentage, z)
    /\ Carries(row[Txt("compression_ratio")],
               a.basic_metrics.compression_ratio, z)
    /\ Carries(row[Txt("readability_score")],
               a.readability.readability_score, z)

RoundTrip(noneAsZero) ==
    (SummaryIsCurrent /\ passed # <<>>) =>
        /\ ~lastEval.none
        /\ lastEval.total_evaluations = Len(passed)
        /\ Len(lastEval.rows) = Len(passed)
        /\ \A i \in DOMAIN passed :
              RowCarries(lastEval.rows[i], passed[i], noneAsZero)

\* C2 as it is stated: read back after N appends, the N rows carry
\* the values as they were passed, a score passed as None not turned into a
\* number.
C2_RoundTripAsPassed == RoundTrip(FALSE)

\* C2: round trip.  From an absent log, N >= 1 appends and then a read give
\* total_evaluations = N and N rows in append order, each with the
\* prompt_version and the score and metric values of its append, a score
\* passed as None read back as 0.0, and the processing time read back
\* rounded to 2 decimals.
C2_RoundTrip ==
    /\ RoundTrip(TRUE)
    /\ (SummaryIsCurrent /\ passed # <<>>) =>
          \A i \in DOMAIN passed :
              LET cell == lastEval.rows[i][Txt("processing_time")]
              IN  /\ FloatExc(cell) = "ok"
                  /\ DecimalVal(cell) % 100 = 0
                  /\ 2 * Abs(DecimalVal(cell) - passed[i].processing_time) <= 100

C2_Witness ==
    /\ SummaryIsCurrent
    /\ Len(passed) >= 2
    /\ lastEval.total_evaluations = Len(passed)
    /\ \E i \in DOMAIN passed : passed[i].rouge_scores.rouge1.ty = "none"
    /\ \E i \in DOMAIN passed : passed[i].rouge_scores.rouge1.ty = "float"

(***************************************************************************)
(* C3                                                                      *)
(***************************************************************************)
\* The documented columns of the two logs, in order.
C3_EvalColumns ==
    <<"timestamp", "prompt_version", "input_length", "rouge1_score",
      "rouge2_score", "rougeL_score", "average_rouge", "word_overlap_pct",
      "compression_ratio", "readability_score", "processing_time">>

C3_UsageColumns ==
    <<"timestamp", "input_length", "summary_length", "compression_ratio",
      "summary_tone", "summary_length_setting", "input_source", "file_type",
      "api_cost_estimate", "processing_time_seconds">>

HeaderOnce(file, columns) ==
    file.exists =>
        /\ file.lines # <<>>
        /\ file.lines[1] = [i \in DOMAIN columns |-> Txt(columns[i])]
        /\ \A i \in 2..Len(file.lines) : file.lines[i][1] # Txt("timestamp")

\* C3: a log that exists has exactly one header line, its first, with the
\* documented columns in order; no append to an existing log wrote a header
\* again.
C3_HeaderOnce ==
    /\ HeaderOnce(evalFile, C3_EvalColumns)
    /\ HeaderOnce(metricsFile, C3_UsageColumns)

C3_Witness ==
    /\ Len(DataLines(evalFile)) >= 2
    /\ Len(DataLines(metricsFile)) >= 1

(***************************************************************************)
(* C4                                                                      *)
(***************************************************************************)
\* C4: the readers do not change a log.  A step of get_evaluation_summary or
\* get_metrics_summary leaves both stores as they were, the store that does
\* not exist yet included.
C4_ReadersDoNotMutate ==
    [][(get_evaluation_summary \/ get_metrics_summary) =>
          (evalFile' = evalFile /\ metricsFile' = metricsFile)]_vars

\* What does hold: get_evaluation_summary changes neither store, and
\* get_metrics_summary changes nothing in a store that exists.
C4_ReadersKeepExisting ==
    [][/\ get_evaluation_summary =>
            (evalFile' = evalFile /\ metricsFile' = metricsFile)
       /\ get_metrics_summary =>
            /\ evalFile' = evalFile
            /\ metricsFile.exists => metricsFile' = metricsFile]_vars

(***************************************************************************)
(* C5                                                                      *)
(***************************************************************************)
\* The version of the one append made between the last two summaries.
AppendedBetween == Txt(passed[Len(passed) - pending].prompt_version)

\* C5: no caching.  When exactly one record was appended between two
\* consecutive get_evaluation_summary calls, the later summary reports a
\* count for the record's strategy one higher than the earlier one, and a
\* total_evaluations one higher (a summary of None reports nothing: 0).
C5_AppendVisible ==
    (prevEval.called /\ between = 1) =>
        /\ ~lastEval.none
        /\ CountOf(lastEval, AppendedBetween)
             = CountOf(prevEval, AppendedBetween) + 1
        /\ lastEval.total_evaluations = prevEval.total_evaluations + 1

C5_Witness ==
    /\ prevEval.called
    /\ between = 1
    /\ ~prevEval.none
    /\ CountOf(prevEval, AppendedBetween) >= 1
    /\ CountOf(lastEval, AppendedBetween) >= 2

(***************************************************************************)
(* C6                                                                      *)
(***************************************************************************)
RECURSIVE SumCounts(_, _)
SumCounts(stats, n) ==
    IF n = 0 THEN 0 ELSE SumCounts(stats, n - 1) + stats[n].count

\* C6: in a summary a strategy id has an entry iff some row has the id, and
\* one entry only; the entry's count is the number of rows with the id, so
\* the counts sum to total_evaluations; no entry has count 0, and a strategy
\* of the registry without rows has no entry.
C6_CountsPerStrategy ==
    (lastEval.called /\ ~lastEval.none) =>
        LET stats == lastEval.version_stats
        IN  /\ \A i, j \in DOMAIN stats :
                  stats[i].version = stats[j].version => i = j
            /\ \A i \in DOMAIN stats :
                  /\ stats[i].count
                       = Cardinality(RowsWith(lastEval, stats[i].version))
                  /\ stats[i].count >= 1
            /\ \A r \in DOMAIN lastEval.rows :
                  HasEntry(lastEval, VersionOf(lastEval.rows[r]))
            /\ SumCounts(stats, Len(stats)) = lastEval.total_evaluations
            /\ \A k \in PROMPT_VERSIONS :
                  RowsWith(lastEval, Txt(k)) = {} => ~HasEntry(lastEval, Txt(k))

C6_Witness ==
    /\ lastEval.called
    /\ ~lastEval.none
    /\ Len(lastEval.version_stats) = 2
    /\ lastEval.total_evaluations = 3
    /\ CountOf(lastEval, Txt("v1_basic")) = 2
    /\ CountOf(lastEval, Txt("v2_role_based")) = 1

(***************************************************************************)
(* C7                                                                      *)
(***************************************************************************)
\* C7 as it is stated: each average is the sum of the field over the
\* strategy's rows divided by the strategy's count.
C7_ExactMean ==
    (lastEval.called /\ ~lastEval.none) =>
        \A i \in DOMAIN lastEval.version_stats :
            LET e == lastEval.version_stats[i]
                Exact(avg, key) ==
                    avg * e.count = FieldSum(lastEval, e.version, key)
            IN  /\ Exact(e.avg_rouge1, "rouge1_score")
                /\ Exact(e.avg_rouge2, "rouge2_score")
                /\ Exact(e.avg_rougeL, "rougeL_score")
                /\ Exact(e.avg_readability, "readability_score")
                /\ Exact(e.avg_time, "processing_time")

\* C7: each average is the arithmetic mean of the field over the rows of the
\* strategy, rounded: avg_rouge1, avg_rouge2 and avg_rougeL to 3 decimals,
\* avg_readability to 1, avg_time to 2.  Two v1_basic rows with rougeL 0.4
\* and 0.6 give count 2 and avg_rougeL 0.5.
C7_RoundedMean ==
    (lastEval.called /\ ~lastEval.none) =>
        \A i \in DOMAIN lastEval.version_stats :
            LET e == lastEval.version_stats[i]
                Rounded(avg, key, unit) ==
                    IsRoundedMean(avg, lastEval, e.version, key, unit)
            IN  /\ Rounded(e.avg_rouge1, "rouge1_score", 10)
                /\ Rounded(e.avg_rouge2, "rouge2_score", 10)
                /\ Rounded(e.avg_rougeL, "rougeL_score", 10)
                /\ Rounded(e.avg_readability, "readability_score", 1000)
                /\ Rounded(e.avg_time, "processing_time", 100)

\* The two v1_basic rows of the example, rougeL 0.4 and 0.6: count 2 and
\* avg_rougeL 0.5, and an avg_rouge2 that had to be rounded.
C7_Witness ==
    /\ lastEval.called
    /\ ~lastEval.none
    /\ HasEntry(lastEval, Txt("v1_basic"))
    /\ EntryOf(lastEval, Txt("v1_basic")).count = 2
    /\ FieldSum(lastEval, Txt("v1_basic"), "rougeL_score") = 10000
    /\ EntryOf(lastEval, Txt("v1_basic")).avg_rougeL = 5000
    /\ FieldSum(lastEval, Txt("v1_basic"), "rouge2_score") = 5830
    /\ EntryOf(lastEval, Txt("v1_basic")).avg_rouge2 = 2910

(***************************************************************************)
(* C8                                                                      *)
(***************************************************************************)
\* The log with its records in the order p.
PermuteRecords(file, p) ==
    [file EXCEPT !.lines =
        <<file.lines[1]>> \o [i \in DOMAIN p |-> DataLines(file)[p[i]]]]

\* strategy id -> (count, averages), as a set of pairs.
StatsMap(summary) ==
    {[version |-> e.version, count |-> e.count, avg_rouge1 |-> e.avg_rouge1,
      avg_rouge2 |-> e.avg_rouge2, avg_rougeL |-> e.avg_rougeL,
      avg_readability |-> e.avg_readability, avg_time |-> e.avg_time] :
        e \in Range(summary.version_stats)}

\* C8: the per-strategy summary is order-independent.  Whatever the order of
\* the records of the log, get_evaluation_summary gives the mapping strategy
\* id -> (count, averages) it gives for the log as it is.
C8_OrderIndependent ==
    (lastEval.called /\ ~lastEval.none) =>
        \A p \in Permutations(1..Len(DataLines(evalFile))) :
            LET other == EvaluationSummary(PermuteRecords(evalFile, p))
            IN  ~other.none /\ StatsMap(other) = StatsMap(lastEval)

Records(file) == {i \in DOMAIN DataLines(file) : DataLines(file)[i] # <<>>}

\* The id a record carries; None where the line ends before it.
RecordVersion(line) == IF Len(line) >= 2 THEN line[2] ELSE NoneCell

\* C10: a log with the evaluation header and at least one record always gets
\* a summary.  Every record counts in total_evaluations and in its
\* strategy's count, whatever its numeric cells hold, and each average is the
\* rounded mean over the strategy's records with 0.0 for a cell that is
\* missing or does not parse.
C10_BadFieldReadsAsZero ==
    (/\ lastEval.called
     /\ evalFile.exists
     /\ evalFile.lines # <<>>
     /\ evalFile.lines[1] = EvalHeader
     /\ Records(evalFile) # {}) =>
        /\ ~lastEval.none
        /\ lastEval.total_evaluations = Cardinality(Records(evalFile))
        /\ \A r \in Records(evalFile) :
              LET version == RecordVersion(DataLines(evalFile)[r])
                  e == EntryOf(lastEval, version)
              IN  /\ HasEntry(lastEval, version)
                  /\ e.count
                       = Cardinality({q \in Records(evalFile) :
                            RecordVersion(DataLines(evalFile)[q]) = version})
                  /\ IsRoundedMean(e.avg_rouge1, lastEval, version,
                                   "rouge1_score", 10)
                  /\ IsRoundedMean(e.avg_rouge2, lastEval, version,
                                   "rouge2_score", 10)
                  /\ IsRoundedMean(e.avg_rougeL, lastEval, version,
                                   "rougeL_score", 10)
                  /\ IsRoundedMean(e.avg_readability, lastEval, version,
                                   "readability_score", 1000)
                  /\ IsRoundedMean(e.avg_time, lastEval, version,
                                   "processing_time", 100)

\* A summary of a log with a sound record, a record cut short (cells
\* missing) and a record whose rouge1 is empty and readability is not a
\* number.
C10_Witness ==
    /\ lastEval.called
    /\ ~lastEval.none
    /\ lastEval.total_evaluations >= 3
    /\ \E i \in DOMAIN lastEval.rows :
          lastEval.rows[i][Txt("rouge2_score")] = NoneCell
    /\ \E i \in DOMAIN lastEval.rows :
          /\ lastEval.rows[i][Txt("rouge1_score")] = <<>>
          /\ lastEval.rows[i][Txt("readability_score")] = Txt("n/a")
    /\ \E i \in DOMAIN lastEval.rows :
          \A k \in {"rouge1_score", "rouge2_score", "rougeL_score",
                    "readability_score", "processing_time"} :
              FloatExc(lastEval.rows[i][Txt(k)]) = "ok"

(***************************************************************************)
(* C11                                                                     *)
(***************************************************************************)
\* The cell written for the score v: the text 0.0 where v is None, and
\* otherwise a decimal literal whose value is v.
WrittenScore(cell, v) ==
    IF v.ty = "none" THEN cell = <<"0", ".", "0">>
    ELSE IsDecimal(cell) /\ DecimalVal(cell) = v.val

\* C11: in the evaluation log the record of a call holds, in each of the four
\* score columns, the numeric text 0.0 where the score passed was None
\* (never an empty cell or a marker), and the score itself otherwise.
C11_NullWrittenAsZero ==
    /\ Len(DataLines(evalFile)) = Len(passed)
    /\ \A i \in DOMAIN passed :
          LET line == DataLines(evalFile)[i]
              scores == passed[i].rouge_scores
          IN  /\ WrittenScore(line[4], scores.rouge1)
              /\ WrittenScore(line[5], scores.rouge2)
              /\ WrittenScore(line[6], scores.rougeL)
              /\ WrittenScore(line[7], scores.average)

C11_Witness ==
    /\ \E i \in DOMAIN passed :
          /\ passed[i].rouge_scores.rouge2.ty = "none"
          /\ passed[i].rouge_scores.average.ty = "none"
          /\ DataLines(evalFile)[i][5] = <<"0", ".", "0">>
          /\ DataLines(evalFile)[i][7] = <<"0", ".", "0">>
    /\ \E i \in DOMAIN passed :
          /\ passed[i].rouge_scores.rouge2 = PyFloat(3330)
          /\ DataLines(evalFile)[i][5] = <<"0", ".", "3", "3", "3">>

(***************************************************************************)
(* C17                                                                     *)
(***************************************************************************)
\* A call of calculate_rouge_scores has returned.
RougeReturned == args.fn = "calculate_rouge_scores" /\ ret.done

ScoreSetOf(result) == result.value

SomeComponentNone(scores) ==
    \/ scores.rouge1.ty = "none"
    \/ scores.rouge2.ty = "none"
    \/ scores.rougeL.ty = "none"

SumOfComponents(scores) ==
    scores.rouge1.val + scores.rouge2.val + scores.rougeL.val

\* C17 as it is stated: average is None iff some component is None, and
\* otherwise it is the mean of the three components returned.
C17_MeanOfReturned ==
    RougeReturned =>
        LET scores == ScoreSetOf(ret.value)
        IN  /\ (scores.average.ty = "none") <=> SomeComponentNone(scores)
            /\ scores.average.ty # "none" =>
                  3 * scores.average.val = SumOfComponents(scores)

\* C17: average is None iff some component is None (the four are None
\* together).  Otherwise average is the mean of the three F-measures of the
\* scorer, not yet rounded, rounded to 3 decimals; it is within 0.001 of the
\* mean of the three components returned.
C17_RoundedMeanOfRaw ==
    RougeReturned =>
        LET scores == ScoreSetOf(ret.value)
            o == args.outcome
            den == o.rouge1.den * o.rouge2.den * o.rougeL.den
            num == o.rouge1.num * o.rouge2.den * o.rougeL.den
                   + o.rouge2.num * o.rouge1.den * o.rougeL.den
                   + o.rougeL.num * o.rouge1.den * o.rouge2.den
        IN  /\ (scores.average.ty = "none") <=> SomeComponentNone(scores)
            /\ SomeComponentNone(scores) =>
                  /\ scores.rouge1.ty = "none"
                  /\ scores.rouge2.ty = "none"
                  /\ scores.rougeL.ty = "none"
            /\ scores.average.ty # "none" =>
                  /\ scores.average.val % 10 = 0
                  /\ Abs(3 * den * scores.average.val - DecScale * num)
                       <= 15 * den
                  /\ Abs(3 * scores.average.val - SumOfComponents(scores)) <= 30

\* F-measures 1/2, 1/4 and 1/2: components 0.5, 0.25 and 0.5, average 0.417.
C17_Witness ==
    /\ RougeReturned
    /\ ScoreSetOf(ret.value).rouge1 = PyFloat(5000)
    /\ ScoreSetOf(ret.value).rouge2 = PyFloat(2500)
    /\ ScoreSetOf(ret.value).rougeL = PyFloat(5000)
    /\ ScoreSetOf(ret.value).average = PyFloat(4170)

(***************************************************************************)
(* C19                                                                     *)
(***************************************************************************)
\* A call of calculate_basic_metrics has returned.
BasicReturned == args.fn = "calculate_basic_metrics" /\ ret.done

\* The text has no whitespace-separated token.
NoTokens(text) == \A i \in DOMAIN text : IsSpace(text[i])

\* C19: calculate_basic_metrics returns for every pair of inputs;
\* compression_ratio is 0 when the reference has length 0 and
\* word_overlap_percentage is 0 when the reference has no token; always
\* word_overlap_percentage is in [0, 100] and compression_ratio is >= 0.
C19_DegenerateInputsGiveZeros ==
    BasicReturned =>
        LET m == ret.value
        IN  /\ Len(args.reference) = 0 => m.compression_ratio.val = 0
            /\ NoTokens(args.reference) => m.word_overlap_percentage.val = 0
            /\ m.word_overlap_percentage.val >= 0
            /\ m.word_overlap_percentage.val <= 100 * DecScale
            /\ m.compression_ratio.val >= 0

\* The empty reference with a candidate that has a word: both are 0.
C19_Witness ==
    /\ BasicReturned
    /\ args.reference = <<>>
    /\ ~NoTokens(args.candidate)
    /\ ret.value.compression_ratio = PyInt(0)
    /\ ret.value.word_overlap_percentage = PyInt(0)

(***************************************************************************)
(* C20                                                                     *)
(***************************************************************************)
\* A call of calculate_readability_score has returned.
ReadabilityReturned == args.fn = "calculate_readability_score" /\ ret.done

\* The number of whitespace-separated words of the text.
WordCount(text) ==
    Cardinality({i \in DOMAIN text :
                    ~IsSpace(text[i]) /\ (i = 1 \/ IsSpace(text[i - 1]))})

\* The number of characters of the words of the text.
WordChars(text) == Cardinality({i \in DOMAIN text : ~IsSpace(text[i])})

\* The number of segments of splitting on '.'.
SegmentCount(text) == Cardinality({i \in DOMAIN text : text[i] = "."}) + 1

\* num / den rounded to an integer, ties to even.
HalfEven(num, den) ==
    CHOOSE r \in -400..400 :
        \/ 2 * Abs(r * den - num) < den
        \/ 2 * Abs(r * den - num) = den /\ r % 2 = 0

Clamp(x, lo, hi) == IF x < lo THEN lo ELSE IF x > hi THEN hi ELSE x

\* clamp(round((5 - W/n + 10 - n/s) * 5), 20, 100) for a text of n > 0 words
\* of W characters in all and s segments, in exact arithmetic.
ExpectedReadability(text) ==
    LET n == WordCount(text)
        W == WordChars(text)
        sg == SegmentCount(text)
    IN  IF n = 0 THEN 75
        ELSE Clamp(HalfEven(5 * (15 * n * sg - W * sg - n * n), n * sg), 20, 100)

\* C20: readability_score is clamp(round((5 - avg_word_length + 10 -
\* avg_sentence_length) * 5), 20, 100), an integer in [20, 100], the
\* sentences being the segments of splitting on '.', the empty last one
\* included; for the empty text both averages are 0 and the score is 75.
C20_ReadabilityFormula ==
    ReadabilityReturned =>
        LET r == ret.value
        IN  /\ r.readability_score.ty = "int"
            /\ r.readability_score.val >= 20 * DecScale
            /\ r.readability_score.val <= 100 * DecScale
            /\ r.readability_score.val = ExpectedReadability(args.text) * DecScale
            /\ args.text = <<>> =>
                  /\ r.avg_word_length.val = 0
                  /\ r.avg_sentence_length.val = 0
                  /\ r.readability_score = PyInt(75)

\* The text "a." of one word and two segments:
\* (5 - 2 + 10 - 0.5) * 5 = 62.5, score 62.
C20_Witness ==
    /\ ReadabilityReturned
    /\ args.text = <<"a", ".">>
    /\ ret.value.readability_score = PyInt(62)

(***************************************************************************)
(* What a run of the generation loop has done.                             *)
(***************************************************************************)
\* The run is over: the loop has ended, or an exception has left it.
BatchOver == pc \in {"done", "aborted"}

\* The rows the run has added to the logs (both start absent).
EvalRowsAdded == DataLines(evalFile)
UsageRowsAdded == DataLines(metricsFile)

\* The user has supplied a reference: scoring is enabled and the text area
\* is not empty.
ReferenceSupplied == reference_summary # NoneCell /\ Len(reference_summary) > 0

\* The strategies whose generation returned and whose append to the usage
\* log, or to both logs, the store accepted.
UsageLogged == hist.generated \ hist.usage_failed
BothLogged == UsageLogged \ hist.eval_failed

\* The iteration for the i-th strategy of the list is over.
IterationOver(i) == i < pos \/ pc = "done"

IndexIn(seq, v) == CHOOSE i \in DOMAIN seq : seq[i] = v

C13_UsageRowPerGeneration ==
    BatchOver => Len(UsageRowsAdded) = Cardinality(UsageLogged)

\* A batch of two without a reference, both generated: two usage rows and no
\* evaluation row.
C13_Witness ==
    /\ pc = "done"
    /\ ~ReferenceSupplied
    /\ Cardinality(hist.generated) = 2
    /\ hist.usage_failed = {}
    /\ Len(UsageRowsAdded) = 2
    /\ Len(EvalRowsAdded) = 0

(***************************************************************************)
(* C14                                                                     *)
(***************************************************************************)
\* The result of a strategy whose iteration went through is in the results.
ResultKept(v) ==
    /\ v \in DOMAIN results_cache
    /\ results_cache[v].text = GeneratedText

\* C14: a failure of the generation service is reported for its strategy
\* and the loop goes on to the strategy after it (it never leaves the loop:
\* only a template lookup does); the loop that ends has attempted every
\* strategy, and the results of the strategies that went through are kept.
C14_GenerationFailureReportedBatchContinues ==
    /\ \A i \in DOMAIN hist.attempted :
          hist.attempted[i] \in hist.generation_failed =>
              /\ \E j \in DOMAIN reported : reported[j] = hist.attempted[i]
              /\ hist.attempted[i] \notin DOMAIN results_cache
              /\ pos > i
              /\ i < Len(selected_versions) =>
                    \/ pc = "lookup" /\ pos = i + 1
                    \/ Len(hist.attempted) > i
    /\ pc = "aborted" => get_prompt_template_raises(selected_versions[pos])
    /\ pc = "done" => hist.attempted = selected_versions
    /\ \A i \in DOMAIN hist.attempted :
          (IterationOver(i) /\ hist.attempted[i] \in BothLogged)
              => ResultKept(hist.attempted[i])

\* The first of two generations failed and was reported; the second was
\* attempted and its result is there at the end.
C14_Witness ==
    /\ pc = "done"
    /\ Len(selected_versions) = 2
    /\ selected_versions[1] \in hist.generation_failed
    /\ reported = <<selected_versions[1]>>
    /\ DOMAIN results_cache = {selected_versions[2]}

AllNone(scores) ==
    /\ DOMAIN scores = {"rouge1", "rouge2", "rougeL", "average"}
    /\ \A k \in DOMAIN scores : scores[k] = PyNone

\* The row of the strategy in the evaluation log has 0.0 for its four scores.
ZeroScoresLogged(v) ==
    \E i \in DOMAIN EvalRowsAdded :
        /\ EvalRowsAdded[i][2] = Txt(v)
        /\ \A c \in 4..7 : EvalRowsAdded[i][c] = <<"0", ".", "0">>

\* C16: when the scorer fails, calculate_rouge_scores lets no exception out:
\* it reports a warning and returns the four fields None, and the loop goes
\* on to log the strategy (the scores as 0.0) and to store its result.
C16_ScorerFailureIsNotFatal ==
    \A i \in DOMAIN hist.attempted :
        LET v == hist.attempted[i]
        IN  v \in hist.scorer_failed =>
              /\ v \in hist.warned
              /\ (\E j \in DOMAIN reported : reported[j] = v)
                    => v \in hist.usage_failed \cup hist.eval_failed
              /\ (i = pos /\ pc \in {"log_summary", "log_evaluation", "store"})
                    => AllNone(locals.rouge)
              /\ (IterationOver(i) /\ v \in BothLogged) =>
                    /\ ResultKept(v)
                    /\ AllNone(results_cache[v].rouge)
                    /\ ZeroScoresLogged(v)
                    /\ Len(UsageRowsAdded) >= 1

\* The scorer failed for the one strategy of the batch; its result is
\* stored with the four scores None and its evaluation row has 0.0.
C16_Witness ==
    /\ pc = "done"
    /\ selected_versions = <<"v1_basic">>
    /\ "v1_basic" \in hist.scorer_failed
    /\ "v1_basic" \in hist.warned
    /\ reported = <<>>
    /\ ResultKept("v1_basic")
    /\ AllNone(results_cache["v1_basic"].rouge)
    /\ ZeroScoresLogged("v1_basic")
    /\ Len(UsageRowsAdded) = 1

(***************************************************************************)
(* What the readers of the usage log return.                               *)
(***************************************************************************)
\* The rows of the usage log as it is on disk.
UsageRowsOnDisk == DictReaderRows(metricsFile.lines)

\* The cells of the column that float() accepts.
ParsableCells(rows, key) ==
    {i \in DOMAIN rows : FloatExc(rows[i][Txt(key)]) = "ok"}

RECURSIVE SumParsable(_, _, _)
SumParsable(rows, key, n) ==
    IF n = 0 THEN 0
    ELSE SumParsable(rows, key, n - 1)
         + (IF n \in ParsableCells(rows, key)
            THEN DecimalVal(rows[n][Txt(key)]) ELSE 0)

\* avg is the mean of the parsable cells of the column rounded to 2
\* decimals, 0 when there is none.
IsMeanOfParsable(avg, rows, key) ==
    LET n == Cardinality(ParsableCells(rows, key))
    IN  IF n = 0 THEN avg = 0
        ELSE /\ avg % 100 = 0
             /\ 2 * Abs(avg * n - SumParsable(rows, key, Len(rows))) <= 100 * n

\* get_metrics_summary has been called on a log that has a row.
SummaryOfRows == lastMetrics.called /\ UsageRowsOnDisk # <<>>

(***************************************************************************)
(* C21                                                                     *)
(***************************************************************************)
\* C21: when the usage log has at least one row get_metrics_summary returns
\* an aggregate, whatever numeric field of a row is unparsable: it counts
\* every row, and an unparsable compression_ratio or
\* processing_time_seconds is left out of its average.
C21_ToleratesMalformedRows ==
    SummaryOfRows =>
        /\ ~lastMetrics.none
        /\ lastMetrics.total_summaries = Len(UsageRowsOnDisk)
        /\ IsMeanOfParsable(lastMetrics.avg_compression_ratio,
                            UsageRowsOnDisk, "compression_ratio")
        /\ IsMeanOfParsable(lastMetrics.avg_processing_time,
                            UsageRowsOnDisk, "processing_time_seconds")

\* The part that holds: an aggregate that is returned counts every row and
\* leaves the unparsable compression_ratio and processing_time_seconds
\* entries out of the two averages; none is returned exactly when
\* input_length, summary_length or api_cost_estimate of some row does not
\* parse.
C21_AveragesSkipUnparsable ==
    SummaryOfRows =>
        /\ lastMetrics.none <=>
              \E i \in DOMAIN UsageRowsOnDisk :
                  StrictFieldsRaise(UsageRowsOnDisk[i])
        /\ ~lastMetrics.none =>
              /\ lastMetrics.total_summaries = Len(UsageRowsOnDisk)
              /\ IsMeanOfParsable(lastMetrics.avg_compression_ratio,
                                  UsageRowsOnDisk, "compression_ratio")
              /\ IsMeanOfParsable(lastMetrics.avg_processing_time,
                                  UsageRowsOnDisk, "processing_time_seconds")

\* An aggregate over a row whose compression_ratio is empty.
C21_SkippedWitness ==
    /\ SummaryOfRows
    /\ ~lastMetrics.none
    /\ \E i \in DOMAIN UsageRowsOnDisk :
          UsageRowsOnDisk[i][Txt("compression_ratio")] = <<>>

(***************************************************************************)
(* C22                                                                     *)
(***************************************************************************)
\* get_recent_summaries has returned.
RecentReturned == args.fn = "get_recent_summaries" /\ ret.done

\* seq ends with part.
IsSuffix(part, seq) ==
    /\ Len(part) <= Len(seq)
    /\ part = SubSeq(seq, Len(seq) - Len(part) + 1, Len(seq))

\* Every row of the log has the input_length, summary_length and
\* api_cost_estimate that get_metrics_summary needs (C21).
UsageLogAggregates ==
    \A i \in DOMAIN UsageRowsOnDisk : ~StrictFieldsRaise(UsageRowsOnDisk[i])

\* C22: get_recent_summaries(limit) returns the most recent rows of the
\* usage log in append order, limit of them or the whole log when it has
\* fewer: never more than limit, for every limit >= 0.  (Stated for the
\* logs that get_metrics_summary aggregates.)
C22_AtMostLimitRows ==
    (RecentReturned /\ UsageLogAggregates) =>
        /\ IsSuffix(ret.value, UsageRowsOnDisk)
        /\ Len(ret.value) <= args.limit
        /\ Len(ret.value) = Min(args.limit, Len(UsageRowsOnDisk))

\* The part that holds: for limit > 0 and a log get_metrics_summary can
\* aggregate, the last min(limit, length) rows; for limit = 0 the whole log.
C22_LastRowsForPositiveLimit ==
    (RecentReturned /\ UsageLogAggregates) =>
        /\ IsSuffix(ret.value, UsageRowsOnDisk)
        /\ args.limit > 0 =>
              Len(ret.value) = Min(args.limit, Len(UsageRowsOnDisk))
        /\ args.limit = 0 => ret.value = UsageRowsOnDisk

(***************************************************************************)
(* C23                                                                     *)
(***************************************************************************)
\* The step appends to the evaluation log.
EvalAppendStep == evalFile' # evalFile

\* C23: in a run of the loop the evaluation record of a strategy is
\* appended only after log_summary has returned for it, the usage record
\* being in the log already; at every point the batch has added at most as
\* many evaluation rows as usage rows.
C23_UsageBeforeEvaluation ==
    /\ [](Len(EvalRowsAdded) <= Len(UsageRowsAdded))
    /\ [][EvalAppendStep =>
            /\ pc = "log_evaluation"
            /\ metricsFile' = metricsFile
            /\ Len(DataLines(evalFile')) = Len(EvalRowsAdded) + 1
            /\ Len(DataLines(evalFile')) <= Len(UsageRowsAdded)]_vars

\* The second strategy of a batch with a reference, after its evaluation
\* record was appended: two rows in each log.
C23_Witness ==
    /\ pc = "store"
    /\ pos = 2
    /\ ReferenceSupplied
    /\ Len(UsageRowsAdded) = 2
    /\ Len(EvalRowsAdded) = 2

(***************************************************************************)
(* C24                                                                     *)
(***************************************************************************)
\* C24: once the iteration of a strategy is over, the strategy has an entry
\* in results_cache if and only if its generation call returned (also when
\* an append failed afterwards); a strategy whose generation failed has no
\* row in either log.
C24_ResultIffGenerated ==
    /\ \A i \in DOMAIN hist.attempted :
          IterationOver(i) =>
              (hist.attempted[i] \in DOMAIN results_cache
                  <=> hist.attempted[i] \in hist.generated)
    /\ (BatchOver /\ hist.generated = {}) =>
          Len(UsageRowsAdded) = 0 /\ Len(EvalRowsAdded) = 0

\* The part that holds: the entry is there if and only if the generation
\* returned and no append raised afterwards.
C24_ResultIffLogged ==
    \A i \in DOMAIN hist.attempted :
        IterationOver(i) =>
            (hist.attempted[i] \in DOMAIN results_cache
                <=> hist.attempted[i] \in BothLogged)

(***************************************************************************)
(* C25                                                                     *)
(***************************************************************************)
\* Both sessions have left log_prompt_evaluation.
AllDone ==
    /\ DOMAIN writers.proc = Sessions
    /\ \A p \in Sessions : writers.proc[p].pc = "done"

\* The log has its header as the first line and nowhere else.
OneHeader ==
    /\ evalFile.lines # <<>>
    /\ {i \in DOMAIN evalFile.lines : evalFile.lines[i] = EvalHeader} = {1}

\* C25 as it is stated: whatever the interleaving, the log ends with one
\* header row, the records it had and both new records.
C25_BothRecordsKept ==
    AllDone =>
        /\ OneHeader
        /\ DataLines(evalFile) = DataLines(writers.store) \o writers.order

\* C25: on a store that exists when the two sessions start, for every
\* interleaving the log ends with one header row, the records it had and
\* both new records in the order of their appends.  On a store that does
\* not exist yet the log ends with one header row and the records appended
\* after the last header creation, the last one appended among them.
C25_KeptOnExistingStore ==
    AllDone =>
        /\ OneHeader
        /\ writers.store.exists =>
              DataLines(evalFile) = DataLines(writers.store) \o writers.order
        /\ ~writers.store.exists =>
              /\ DataLines(evalFile) # <<>>
              /\ IsSuffix(DataLines(evalFile), writers.order)

\* Both sessions have appended to a log that had a record: three records.
C25_Witness ==
    /\ AllDone
    /\ writers.store.exists
    /\ Len(DataLines(writers.store)) = 1
    /\ Len(DataLines(evalFile)) = 3
====
